---- MODULE Spec2Model ----
(***************************************************************************)
(* A model of the ai_scheduler backend: the persistence gateway            *)
(* (database.py), the external interface (api.py), the agent tools         *)
(* (utils.py), the agents (agents/*.py) and the orchestration graph        *)
(* (ched_backend.py).                                                      *)
(*                                                                         *)
(* Text is modelled by tuples: a string that the code transforms           *)
(* character by character (priority, category) is a tuple of one-character *)
(* strings; a timestamp is the tuple <<day, hour>>, which orders as the    *)
(* ISO-8601 text does and whose prefixes are the prefixes SQL LIKE tests.  *)
(***************************************************************************)
EXTENDS Integers, Sequences, FiniteSets, TLC

VARIABLES
    user_schedule,      \* rows of table user_schedule (database.py:33)
    schedule_seq,       \* its AUTOINCREMENT counter
    chat_history,       \* rows of table chat_history (database.py:47)
    chat_seq,           \* its AUTOINCREMENT counter
    todo_items,         \* rows of table todo_items (database.py:60)
    todo_seq,           \* its AUTOINCREMENT counter
    checkpointer,       \* the MemorySaver of the graph (database.py:527): the
                        \* messages channel saved under each thread_id
    courses,            \* rows of table courses (database.py:76)
    courses_seq,        \* its AUTOINCREMENT counter
    user_courses,       \* rows of table user_courses (database.py:85)
    user_courses_seq,   \* its AUTOINCREMENT counter
    last,               \* the last call made on the gateway and what it returned
    agent,              \* the locals of the agent function that is running
    state,              \* the MultiAgentState of the request (models.py)
    run                 \* the graph run and the stream of stream_query

vars == <<user_schedule, schedule_seq, chat_history, chat_seq, todo_items, todo_seq,
          checkpointer,
          courses, courses_seq,
          user_courses, user_courses_seq, last, agent, state, run>>

eventVars == <<user_schedule, schedule_seq>>
chatVars == <<chat_history, chat_seq, todo_items, todo_seq, checkpointer>>
todoVars == <<todo_items, todo_seq>>
chatTable == <<chat_history, chat_seq>>
enrollVars == <<courses, courses_seq, user_courses, user_courses_seq>>
procVars == <<agent, state, run>>

(***************************************************************************)
(* Bounds of the model.                                                    *)
(***************************************************************************)
MaxEvents == 2          \* rows ever inserted into user_schedule
MaxMessages == 2        \* rows ever inserted into chat_history

(***************************************************************************)
(* Text.                                                                   *)
(***************************************************************************)
LowerAlpha == <<"a", "c", "d", "e", "g", "h", "i", "l", "m", "n", "o", "r", "t", "u", "w">>
UpperAlpha == <<"A", "C", "D", "E", "G", "H", "I", "L", "M", "N", "O", "R", "T", "U", "W">>

\* str.lower() and str.upper() on one character
char_lower(c) ==
    IF \E i \in 1..Len(UpperAlpha) : UpperAlpha[i] = c
    THEN LowerAlpha[CHOOSE i \in 1..Len(UpperAlpha) : UpperAlpha[i] = c]
    ELSE c

char_upper(c) ==
    IF \E i \in 1..Len(LowerAlpha) : LowerAlpha[i] = c
    THEN UpperAlpha[CHOOSE i \in 1..Len(LowerAlpha) : LowerAlpha[i] = c]
    ELSE c

\* str.lower()
str_lower(s) == [i \in 1..Len(s) |-> char_lower(s[i])]

\* str.capitalize(): the first character upper-cased, the rest lower-cased
str_capitalize(s) ==
    [i \in 1..Len(s) |-> IF i = 1 THEN char_upper(s[i]) ELSE char_lower(s[i])]

High == <<"H", "i", "g", "h">>
Medium == <<"M", "e", "d", "i", "u", "m">>
Low == <<"L", "o", "w">>
General == <<"G", "e", "n", "e", "r", "a", "l">>
Academic == <<"A", "c", "a", "d", "e", "m", "i", "c">>

\* models.py: priority: Literal["High", "Medium", "Low"]
PriorityLiteral == {High, Medium, Low}

\* a slip: the lookup made without .lower()
priority_map_get_case_sensitive(p) ==
    IF p = <<"l", "o", "w">> THEN Low
    ELSE IF p = <<"m", "e", "d", "i", "u", "m">> THEN Medium
    ELSE IF p = <<"h", "i", "g", "h">> THEN High
    ELSE Medium

\* api.py:336 priority_map and its .get(event.priority.lower(), "Medium")
priority_map_get(p) ==
    LET k == str_lower(p) IN
    IF k = <<"l", "o", "w">> THEN Low
    ELSE IF k = <<"m", "e", "d", "i", "u", "m">> THEN Medium
    ELSE IF k = <<"h", "i", "g", "h">> THEN High
    ELSE Medium

\* api.py:340 event.category.capitalize() if event.category else "General"
normalize_category(c) == IF c # <<>> THEN str_capitalize(c) ELSE General

(***************************************************************************)
(* Timestamps: <<day, hour>>; a date is the prefix <<day>>.                *)
(***************************************************************************)
IsPrefix(p, s) == Len(p) <= Len(s) /\ \A i \in 1..Len(p) : p[i] = s[i]

\* text order of two timestamps of the same form
TsLess(a, b) == a[1] < b[1] \/ (a[1] = b[1] /\ a[2] < b[2])

(***************************************************************************)
(* Input domains.                                                          *)
(***************************************************************************)
Users == {1, 2}
Titles == {"A", "B"}
Starts == {<<1, 9>>, <<2, 9>>}
EndTs == <<2, 10>>
Dates == {<<1>>, <<2>>}
Threads == {"t1", "agent"}
NoLast == [op |-> "none", via |-> "none", user_id |-> 0, ret |-> FALSE,
           raised |-> FALSE, id |-> 0, title |-> "", start_datetime |-> <<>>,
           priority |-> <<>>, category |-> <<>>, thread_id |-> ""]

(***************************************************************************)
(* models.py: ScheduleEvent.  Constructing one validates priority against  *)
(* the Literal; any other value raises ValidationError.                    *)
(***************************************************************************)
ScheduleEvent(title, start_datetime, end_datetime, priority, category, description, source) ==
    [title |-> title, start_datetime |-> start_datetime, end_datetime |-> end_datetime,
     priority |-> priority, category |-> category, description |-> description,
     source |-> source]

ScheduleEventValid(priority) == priority \in PriorityLiteral

\* the columns of user_schedule (database.py:33-45)
ScheduleColumns == {"id", "user_id", "title", "start_datetime", "end_datetime",
                    "priority", "category", "description", "source"}

(***************************************************************************)
(* DatabaseManager: the event operations.  Each operator is the method's   *)
(* effect on the table and its return value.                               *)
(***************************************************************************)

\* a slip: the idempotency check left out
add_schedule_event_unchecked(rows, seq, event, user_id) ==
    [rows |-> rows \cup {[id |-> seq + 1, user_id |-> user_id, title |-> event.title,
                          start_datetime |-> event.start_datetime,
                          end_datetime |-> event.end_datetime,
                          priority |-> event.priority, category |-> event.category,
                          description |-> event.description, source |-> event.source]},
     seq |-> seq + 1, ret |-> TRUE]

\* database.py:275-297
add_schedule_event(rows, seq, event, user_id) ==
    IF \E r \in rows : /\ r.user_id = user_id
                       /\ r.title = event.title
                       /\ r.start_datetime = event.start_datetime
    THEN [rows |-> rows, seq |-> seq, ret |-> FALSE]
    ELSE [rows |-> rows \cup {[id |-> seq + 1, user_id |-> user_id, title |-> event.title,
                               start_datetime |-> event.start_datetime,
                               end_datetime |-> event.end_datetime,
                               priority |-> event.priority, category |-> event.category,
                               description |-> event.description, source |-> event.source]},
          seq |-> seq + 1, ret |-> TRUE]

\* one row after UPDATE ... SET k = v for every k of updates
PatchRow(r, updates) ==
    [c \in DOMAIN r |-> IF c \in DOMAIN updates THEN updates[c] ELSE r[c]]

\* database.py:334-344; a key that is no column makes sqlite raise
update_event(rows, event_id, user_id, updates) ==
    IF DOMAIN updates = {} THEN [rows |-> rows, ret |-> FALSE, raised |-> FALSE]
    ELSE IF ~(DOMAIN updates \subseteq ScheduleColumns)
    THEN [rows |-> rows, ret |-> FALSE, raised |-> TRUE]
    ELSE LET hit == {r \in rows : r.id = event_id /\ r.user_id = user_id} IN
         [rows |-> (rows \ hit) \cup {PatchRow(r, updates) : r \in hit},
          ret |-> hit # {}, raised |-> FALSE]

\* database.py:346-352
delete_event(rows, event_id, user_id) ==
    LET hit == {r \in rows : r.id = event_id /\ r.user_id = user_id} IN
    [rows |-> rows \ hit, ret |-> hit # {}]

\* database.py:354-360: start_datetime LIKE 'date%'
delete_events_by_date(rows, date, user_id) ==
    LET hit == {r \in rows : r.user_id = user_id /\ IsPrefix(date, r.start_datetime)} IN
    [rows |-> rows \ hit, ret |-> Cardinality(hit)]

\* database.py:362-368
clear_all_events(rows, user_id) ==
    LET hit == {r \in rows : r.user_id = user_id} IN
    [rows |-> rows \ hit, ret |-> Cardinality(hit)]

\* the rows of a set in the order ORDER BY start_datetime DESC gives them
\* (rows of equal start in rowid order)
RECURSIVE OrderByStartDesc(_)
OrderByStartDesc(rows) ==
    IF rows = {} THEN <<>>
    ELSE LET first == CHOOSE r \in rows : \A q \in rows \ {r} :
                          \/ TsLess(q.start_datetime, r.start_datetime)
                          \/ (q.start_datetime = r.start_datetime /\ r.id < q.id)
         IN <<first>> \o OrderByStartDesc(rows \ {first})

DefaultLimit == 50

\* database.py:299-305: SELECT * ... WHERE user_id = ? ORDER BY start_datetime DESC LIMIT ?
get_upcoming_events(rows, user_id, limit) ==
    LET all == OrderByStartDesc({r \in rows : r.user_id = user_id}) IN
    SubSeq(all, 1, IF Len(all) < limit THEN Len(all) ELSE limit)

\* database.py:374-382
save_message(msgs, seq, user_id, thread_id, role, message, intent) ==
    [rows |-> msgs \cup {[id |-> seq + 1, user_id |-> user_id, thread_id |-> thread_id,
                          role |-> role, message |-> message, intent |-> intent]},
     seq |-> seq + 1]

\* a slip: the schedule rows deleted by source alone, for every user
delete_chat_thread_any_user(msgs, rows, user_id, thread_id, fail) ==
    LET msgs1 == {m \in msgs : ~(m.user_id = user_id /\ m.thread_id = thread_id)}
        rows1 == {r \in rows : r.source # thread_id}
    IN  IF fail = "chat" THEN [msgs |-> msgs, rows |-> rows, ret |-> FALSE]
        ELSE IF fail = "schedule" THEN [msgs |-> msgs1, rows |-> rows, ret |-> FALSE]
        ELSE [msgs |-> msgs1, rows |-> rows1, ret |-> TRUE]

\* database.py:384-408: two transactions, one per table; `fail` is where the
\* storage engine raises ("none", "chat": in the first, "schedule": in the second)
delete_chat_thread(msgs, rows, user_id, thread_id, fail) ==
    LET msgs1 == {m \in msgs : ~(m.user_id = user_id /\ m.thread_id = thread_id)}
        rows1 == {r \in rows : ~(r.user_id = user_id /\ r.source = thread_id)}
    IN  IF fail = "chat" THEN [msgs |-> msgs, rows |-> rows, ret |-> FALSE]
        ELSE IF fail = "schedule" THEN [msgs |-> msgs1, rows |-> rows, ret |-> FALSE]
        ELSE [msgs |-> msgs1, rows |-> rows1, ret |-> TRUE]

(***************************************************************************)
(* The calls on the event store.  The external interface (api.py) always   *)
(* passes user_id=1; an agent tool (utils.py) passes the user id of its    *)
(* arguments.  `last` records the gateway call and its outcome.            *)
(***************************************************************************)
Call(op, via, user_id, ret, raised, id, title, start_datetime, priority, category, thread_id) ==
    [op |-> op, via |-> via, user_id |-> user_id, ret |-> ret, raised |-> raised,
     id |-> id, title |-> title, start_datetime |-> start_datetime,
     priority |-> priority, category |-> category, thread_id |-> thread_id]

\* api.py:325-359 POST /events; req.user_id is not read
create_event(req) ==
    LET normalized_priority == priority_map_get(req.priority)
        normalized_category == normalize_category(req.category)
        schedule_event == ScheduleEvent(req.title, req.start_datetime, req.end_datetime,
                                        normalized_priority, normalized_category,
                                        req.description, req.source)
        r == add_schedule_event(user_schedule, schedule_seq, schedule_event, 1)
    IN  /\ r.seq <= MaxEvents
        /\ user_schedule' = r.rows
        /\ schedule_seq' = r.seq
        /\ last' = Call("add_schedule_event", "create_event", 1, r.ret, FALSE,
                        IF r.ret THEN r.seq ELSE 0, req.title, req.start_datetime,
                        req.priority, req.category, "") @@ [req_user_id |-> req.user_id]
        /\ UNCHANGED <<chatVars, enrollVars, procVars>>

\* utils.py:46-70 add_event
add_event(args, user_id) ==
    IF ~ScheduleEventValid(args.priority)
    THEN /\ last' = Call("ScheduleEvent", "add_event", user_id, FALSE, TRUE, 0,
                         args.title, args.start_datetime, args.priority, args.category, "")
         /\ UNCHANGED <<eventVars, chatVars, enrollVars, procVars>>
    ELSE LET event == ScheduleEvent(args.title, args.start_datetime, args.end_datetime,
                                    args.priority, args.category, args.description, "agent")
             r == add_schedule_event(user_schedule, schedule_seq, event, user_id)
         IN  /\ r.seq <= MaxEvents
             /\ user_schedule' = r.rows
             /\ schedule_seq' = r.seq
             /\ last' = Call("add_schedule_event", "add_event", user_id, r.ret, FALSE,
                             IF r.ret THEN r.seq ELSE 0, args.title, args.start_datetime,
                             args.priority, args.category, "")
             /\ UNCHANGED <<chatVars, enrollVars, procVars>>

\* api.py:361-385 PUT /events/{id} (an empty patch is answered 400 before the
\* gateway is called) and utils.py:88-99 update_calendar_event
update_event_call(via, event_id, user_id, updates) ==
    /\ via = "api" => (user_id = 1 /\ DOMAIN updates # {})
    /\ LET r == update_event(user_schedule, event_id, user_id, updates) IN
       /\ user_schedule' = r.rows
       /\ last' = Call("update_event", via, user_id, r.ret, r.raised, event_id,
                       "", <<>>, <<>>, <<>>, "")
    /\ UNCHANGED <<schedule_seq, chatVars, enrollVars, procVars>>

\* api.py:387-403 DELETE /events/{id} and utils.py:72-79 delete_calendar_event
delete_event_call(via, event_id, user_id) ==
    /\ via = "api" => user_id = 1
    /\ LET r == delete_event(user_schedule, event_id, user_id) IN
       /\ user_schedule' = r.rows
       /\ last' = Call("delete_event", via, user_id, r.ret, FALSE, event_id,
                       "", <<>>, <<>>, <<>>, "")
    /\ UNCHANGED <<schedule_seq, chatVars, enrollVars, procVars>>

\* api.py:405-418 DELETE /events/date/{date} and utils.py:81-86 delete_events_on_date
delete_events_by_date_call(via, date, user_id) ==
    /\ via = "api" => user_id = 1
    /\ LET r == delete_events_by_date(user_schedule, date, user_id) IN
       /\ user_schedule' = r.rows
       /\ last' = Call("delete_events_by_date", via, user_id, r.ret > 0, FALSE, 0,
                       "", date, <<>>, <<>>, "")
    /\ UNCHANGED <<schedule_seq, chatVars, enrollVars, procVars>>

\* utils.py:101-106 clear_full_calendar
clear_full_calendar(user_id) ==
    /\ LET r == clear_all_events(user_schedule, user_id) IN
       /\ user_schedule' = r.rows
       /\ last' = Call("clear_all_events", "tool", user_id, r.ret > 0, FALSE, 0,
                       "", <<>>, <<>>, <<>>, "")
    /\ UNCHANGED <<schedule_seq, chatVars, enrollVars, procVars>>

\* api.py:139-145 and 161-167: the chat log writes of POST /query
save_message_call(user_id, thread_id, role, message) ==
    LET r == save_message(chat_history, chat_seq, user_id, thread_id, role, message, "") IN
    /\ r.seq <= MaxMessages
    /\ chat_history' = r.rows
    /\ chat_seq' = r.seq
    /\ last' = Call("save_message", "api", user_id, TRUE, FALSE, r.seq,
                    "", <<>>, <<>>, <<>>, thread_id)
    /\ UNCHANGED <<eventVars, todoVars, checkpointer, enrollVars, procVars>>

\* api.py:483-496 DELETE /chat/threads/{thread_id}
delete_thread(thread_id, user_id, fail) ==
    LET r == delete_chat_thread(chat_history, user_schedule, user_id, thread_id, fail) IN
    /\ chat_history' = r.msgs
    /\ user_schedule' = r.rows
    /\ last' = Call("delete_chat_thread", "api", user_id, r.ret, FALSE, 0,
                    "", <<>>, <<>>, <<>>, thread_id)
    /\ UNCHANGED <<schedule_seq, chat_seq, todoVars, checkpointer, enrollVars, procVars>>

(***************************************************************************)
(* The event store under the calls of the interface and of the tools.      *)
(***************************************************************************)
Idle == [pc |-> "idle"]

CheckpointThreads == Threads \cup {"default"}

InitStore ==
    /\ user_schedule = {}
    /\ schedule_seq = 0
    /\ chat_history = {}
    /\ chat_seq = 0
    /\ todo_items = {}
    /\ todo_seq = 0
    /\ checkpointer = [thread_id \in CheckpointThreads |-> <<>>]
    /\ courses = {}
    /\ courses_seq = 0
    /\ user_courses = {}
    /\ user_courses_seq = 0
    /\ last = NoLast

InitProc ==
    /\ agent = Idle
    /\ state = Idle
    /\ run = Idle

Init == InitStore /\ InitProc

Urgent == <<"u", "r", "g", "e", "n", "t">>

EventCreateRequests ==
    [title : Titles, start_datetime : Starts, end_datetime : {EndTs},
     priority : {<<"h", "i", "g", "h">>}, category : {<<"a", "c", "a", "d", "e", "m", "i", "c">>},
     description : {""}, source : {"manual", "t1"}, user_id : Users]

AddEventArgs ==
    [title : Titles, start_datetime : Starts, end_datetime : {EndTs},
     priority : {Low, Urgent}, category : {General}, description : {""}]

ApiPatches ==
    {("title" :> t) : t \in Titles} \cup {("start_datetime" :> s) : s \in Starts}
        \cup {("priority" :> Urgent)}

ToolPatches == ApiPatches \cup {<<>>, ("colour" :> "red")}

EventIds == 1..MaxEvents

CreateEvent == \E req \in EventCreateRequests : create_event(req)

AddEvent == \E args \in AddEventArgs, u \in Users : add_event(args, u)

UpdateEvent ==
    \/ \E id \in EventIds, up \in ApiPatches : update_event_call("api", id, 1, up)
    \/ \E id \in EventIds, up \in ToolPatches, u \in Users : update_event_call("tool", id, u, up)

DeleteEvent ==
    \/ \E id \in EventIds : delete_event_call("api", id, 1)
    \/ \E id \in EventIds, u \in Users : delete_event_call("tool", id, u)

DeleteEventsByDate ==
    \/ \E d \in Dates : delete_events_by_date_call("api", d, 1)
    \/ \E d \in Dates, u \in Users : delete_events_by_date_call("tool", d, u)

ClearFullCalendar == \E u \in Users : clear_full_calendar(u)

DeleteThread == \E t \in Threads, u \in Users : delete_thread(t, u, "none")

Next ==
    \/ CreateEvent
    \/ AddEvent
    \/ UpdateEvent
    \/ DeleteEvent
    \/ DeleteEventsByDate
    \/ ClearFullCalendar
    \/ DeleteThread

Spec == Init /\ [][Next]_vars

(***************************************************************************)
(* Claims on the event store.                                              *)
(***************************************************************************)
EventsOf(rows, user_id) == {r \in rows : r.user_id = user_id}

HoldsEvent(rows, user_id, title, start_datetime) ==
    \E r \in rows : /\ r.user_id = user_id
                    /\ r.title = title
                    /\ r.start_datetime = start_datetime

\* C1: an add_schedule_event call for a (user, title, start) that the store
\* already holds returns False and leaves the number of the user's events as
\* it was.
C1_DuplicateAddRejected ==
    [][(/\ last'.op = "add_schedule_event"
        /\ HoldsEvent(user_schedule, last'.user_id, last'.title, last'.start_datetime))
       => (/\ last'.ret = FALSE
           /\ Cardinality(EventsOf(user_schedule', last'.user_id))
                = Cardinality(EventsOf(user_schedule, last'.user_id)))]_vars

\* a duplicate add has been made and refused
C1_Witness ==
    /\ last.op = "add_schedule_event"
    /\ last.ret = FALSE
    /\ HoldsEvent(user_schedule, last.user_id, last.title, last.start_datetime)

\* C2: in every reachable state of the event store no two events of one user
\* have the same (title, start_datetime).
C2_NoDuplicateEvents ==
    \A r, q \in user_schedule :
        (r.user_id = q.user_id /\ r.title = q.title /\ r.start_datetime = q.start_datetime)
            => r = q

(***************************************************************************)
(* The chat log and the events tagged with a thread: POST /query writes    *)
(* the log, POST /events and the add_event tool write events, DELETE       *)
(* /chat/threads/{id} deletes a thread.                                    *)
(***************************************************************************)
ThreadEventRequests ==
    [title : {"A"}, start_datetime : Starts, end_datetime : {EndTs},
     priority : {<<"h", "i", "g", "h">>}, category : {<<>>},
     description : {""}, source : {"manual"} \cup Threads, user_id : {1}]

ThreadAddEventArgs ==
    [title : {"A"}, start_datetime : {<<1, 9>>}, end_datetime : {EndTs},
     priority : {Low}, category : {General}, description : {""}]

StorageFailures == {"none", "chat", "schedule"}

ThreadCreateEvent == \E req \in ThreadEventRequests : create_event(req)

ThreadAddEvent == \E args \in ThreadAddEventArgs, u \in Users : add_event(args, u)

SaveMessage ==
    \E u \in Users, t \in Threads, role \in {"user", "assistant"} :
        save_message_call(u, t, role, "hello")

DeleteThreadOrFail ==
    \E t \in Threads, u \in Users, fail \in StorageFailures : delete_thread(t, u, fail)

NextThread ==
    \/ ThreadCreateEvent
    \/ ThreadAddEvent
    \/ SaveMessage
    \/ DeleteThreadOrFail

SpecThread == Init /\ [][NextThread]_vars

\* C4 (as amended): after delete_chat_thread(U, T) returns True the chat log is
\* the log before the call without the messages of (U, T), and the event store
\* is the store before the call without the events of U whose source is T;
\* every other row is as it was.
C4_ThreadDeleteScoped ==
    [][(last'.op = "delete_chat_thread" /\ last'.ret = TRUE)
       => (/\ chat_history' = {m \in chat_history :
                                 ~(m.user_id = last'.user_id /\ m.thread_id = last'.thread_id)}
           /\ user_schedule' = {r \in user_schedule :
                                  ~(r.user_id = last'.user_id /\ r.source = last'.thread_id)})]_vars

\* a thread with messages and events has been deleted while rows of another
\* user and of another thread stay
C4_Witness ==
    /\ last.op = "delete_chat_thread"
    /\ last.ret = TRUE
    /\ chat_seq > Cardinality(chat_history)
    /\ schedule_seq > Cardinality(user_schedule)
    /\ chat_history # {}
    /\ user_schedule # {}

\* C4 as claimed: after delete_chat_thread(U, T) returns True no chat message
\* of (U, T) and no schedule event whose source is T remains.
C4_NoEventOfThreadRemains ==
    (last.op = "delete_chat_thread" /\ last.ret = TRUE)
        => (/\ \A m \in chat_history :
                  ~(m.user_id = last.user_id /\ m.thread_id = last.thread_id)
            /\ \A r \in user_schedule : r.source # last.thread_id)

\* C25: delete_chat_thread(U, T) is all or nothing: whatever its outcome, a
\* failure inside it included, either the chat messages of (U, T) and the events
\* of U with source T are both removed or both sets are as before the call; and
\* when it returns False the chat log and the event store are unchanged.
C25_ThreadDeleteAtomic ==
    [][(last'.op = "delete_chat_thread")
       => LET msgsOf == {m \in chat_history :
                           m.user_id = last'.user_id /\ m.thread_id = last'.thread_id}
              rowsOf == {r \in user_schedule :
                           r.user_id = last'.user_id /\ r.source = last'.thread_id}
          IN  /\ \/ /\ chat_history' = chat_history \ msgsOf
                    /\ user_schedule' = user_schedule \ rowsOf
                 \/ /\ chat_history' = chat_history
                    /\ user_schedule' = user_schedule
              /\ (last'.ret = FALSE)
                    => (chat_history' = chat_history /\ user_schedule' = user_schedule)]_vars

\* C26: in every state of the event store reached through POST /events, PUT
\* /events/{id}, DELETE /events and the calendar tools, the priority of every
\* stored event is High, Medium or Low.
C26_StoredPriorityValid ==
    \A r \in user_schedule : r.priority \in {High, Medium, Low}

(***************************************************************************)
(* Normalization at POST /events and the listing of GET /events.           *)
(***************************************************************************)
PriorityInputs ==
    {<<"h", "i", "g", "h">>, High, <<"L", "O", "W">>, <<"m", "e", "d", "i", "u", "m">>,
     Urgent, <<>>}

CategoryInputs ==
    {<<"a", "c", "a", "d", "e", "m", "i", "c">>, Academic, <<"h", "W">>, <<>>}

NormEventRequests ==
    [title : {"A"}, start_datetime : Starts, end_datetime : {EndTs},
     priority : PriorityInputs, category : CategoryInputs,
     description : {""}, source : {"manual"}, user_id : {1}]

NormCreateEvent == \E req \in NormEventRequests : create_event(req)

NormDeleteEvent == \E id \in EventIds : delete_event_call("api", id, 1)

NextNorm ==
    \/ NormCreateEvent
    \/ NormDeleteEvent

SpecNorm == Init /\ [][NextNorm]_vars

\* C9: an event that POST /events has stored is listed by get_upcoming_events
\* with the normalized priority and category of the request; the normalization
\* maps onto High/Medium/Low, maps "high"/"academic" to "High"/"Academic", and
\* applying it twice gives what applying it once gives.
C9_NormalizedRoundTrip ==
    /\ \A p \in PriorityInputs :
          /\ priority_map_get(p) \in PriorityLiteral
          /\ priority_map_get(priority_map_get(p)) = priority_map_get(p)
    /\ \A c \in CategoryInputs :
          normalize_category(normalize_category(c)) = normalize_category(c)
    /\ priority_map_get(<<"h", "i", "g", "h">>) = High
    /\ normalize_category(<<"a", "c", "a", "d", "e", "m", "i", "c">>) = Academic
    /\ (last.op = "add_schedule_event" /\ last.via = "create_event" /\ last.ret)
          => LET listed == get_upcoming_events(user_schedule, 1, DefaultLimit) IN
             \E i \in DOMAIN listed :
                 /\ listed[i].id = last.id
                 /\ listed[i].priority = priority_map_get(last.priority)
                 /\ listed[i].category = normalize_category(last.category)

\* "high"/"academic" has been created and is listed as "High"/"Academic"
C9_Witness ==
    /\ last.op = "add_schedule_event" /\ last.via = "create_event" /\ last.ret
    /\ last.priority = <<"h", "i", "g", "h">>
    /\ last.category = <<"a", "c", "a", "d", "e", "m", "i", "c">>
    /\ \E r \in user_schedule : r.id = last.id /\ r.priority = High /\ r.category = Academic

(***************************************************************************)
(* Enrollment and academic history (database.py:97-273).  An optional      *)
(* value is <<>> (None) or <<v>>.                                          *)
(***************************************************************************)
None == <<>>
Some(v) == <<v>>

\* Python truth of an optional string and of an optional number
TruthyStr(x) == x # None /\ x[1] # ""
TruthyNum(x) == x # None /\ x[1] # 0

\* Python `a or b`
OrStr(a, b) == IF TruthyStr(a) THEN a ELSE b
OrNum(a, b) == IF TruthyNum(a) THEN a ELSE b

\* the content of data/courses.json, read by get_all_courses (database.py:172-178)
Catalogue ==
    {[id |-> 1, name |-> "Algorithms", code |-> "CS1", credits |-> 3],
     [id |-> 2, name |-> "Calculus", code |-> "MA1", credits |-> 4],
     [id |-> 3, name |-> "Physics", code |-> "PH1", credits |-> 2]}

get_all_courses == Catalogue

EnrollResult(crs, cseq, ucs, useq, ret, raised) ==
    [courses |-> crs, courses_seq |-> cseq, user_courses |-> ucs,
     user_courses_seq |-> useq, ret |-> ret, raised |-> raised]

\* a slip: the upsert made without the check for an active row, on a table
\* without the UNIQUE(user_id, course_id) constraint
ActivateEnrollmentUnchecked(crs, cseq, ucs, useq, user_id, db_course_id) ==
    EnrollResult(crs, cseq,
                 ucs \cup {[id |-> useq + 1, user_id |-> user_id,
                            course_id |-> db_course_id, grade |-> None,
                            status |-> "active"]},
                 useq + 1, TRUE, FALSE)

\* database.py:233-247: the check for an active row, then the upsert
ActivateEnrollment(crs, cseq, ucs, useq, user_id, db_course_id) ==
    LET curr == {e \in ucs : e.user_id = user_id /\ e.course_id = db_course_id} IN
    IF \E e \in curr : e.status = "active"
    THEN EnrollResult(crs, cseq, ucs, useq, FALSE, FALSE)
    ELSE IF curr # {}
    THEN EnrollResult(crs, cseq,
                      (ucs \ curr) \cup {[e EXCEPT !.status = "active"] : e \in curr},
                      useq, TRUE, FALSE)
    ELSE EnrollResult(crs, cseq,
                      ucs \cup {[id |-> useq + 1, user_id |-> user_id,
                                 course_id |-> db_course_id, grade |-> None,
                                 status |-> "active"]},
                      useq + 1, TRUE, FALSE)

\* database.py:216-231: the course is looked up by code, inserted when
\* missing, else updated with the name and credits given (COALESCE keeps the
\* column for a None).  courses.name is NOT NULL: inserting None raises.
EnsureCourse(crs, cseq, course_name, course_code, credits) ==
    LET res == {c \in crs : c.code = course_code[1]} IN
    IF res = {}
    THEN IF course_name = None
         THEN [courses |-> crs, courses_seq |-> cseq, db_course_id |-> 0, raised |-> TRUE]
         ELSE [courses |-> crs \cup {[id |-> cseq + 1, name |-> course_name[1],
                                      code |-> course_code[1],
                                      credits |-> OrNum(credits, Some(3)), semester |-> 1]},
               courses_seq |-> cseq + 1, db_course_id |-> cseq + 1, raised |-> FALSE]
    ELSE LET c == CHOOSE c \in res : TRUE IN
         [courses |-> IF TruthyStr(course_name) \/ TruthyNum(credits)
                      THEN (crs \ {c}) \cup
                           {[c EXCEPT !.name = IF course_name # None THEN course_name[1] ELSE @,
                                      !.credits = IF credits # None THEN credits ELSE @]}
                      ELSE crs,
          courses_seq |-> cseq, db_course_id |-> c.id, raised |-> FALSE]

\* database.py:193-247.  A `return False` inside the `with` block still
\* commits what the statements before it wrote.
enroll_in_course(crs, cseq, ucs, useq, user_id, course_id, course_name, course_code, credits) ==
    LET lookup == course_id # 0 /\ (~TruthyStr(course_code) \/ ~TruthyStr(course_name))
        matches == {c \in get_all_courses : c.id = course_id}
        found == lookup /\ matches # {}
        match == CHOOSE c \in matches : TRUE
        name1 == IF found THEN OrStr(course_name, Some(match.name)) ELSE course_name
        code1 == IF found THEN OrStr(course_code, Some(match.code)) ELSE course_code
        credits1 == IF found THEN OrNum(credits, Some(match.credits)) ELSE credits
        byId == {c \in crs : c.id = course_id}
        row == CHOOSE c \in byId : TRUE
        name2 == IF TruthyStr(code1) THEN name1 ELSE Some(row.name)
        code2 == IF TruthyStr(code1) THEN code1 ELSE Some(row.code)
        credits2 == IF TruthyStr(code1) THEN credits1 ELSE row.credits
    IN  IF ~TruthyStr(code1) /\ byId = {}
        THEN EnrollResult(crs, cseq, ucs, useq, FALSE, FALSE)
        ELSE LET ens == EnsureCourse(crs, cseq, name2, code2, credits2) IN
             IF ens.raised
             THEN EnrollResult(crs, cseq, ucs, useq, FALSE, TRUE)
             ELSE ActivateEnrollment(ens.courses, ens.courses_seq, ucs, useq,
                                     user_id, ens.db_course_id)

\* database.py:249-273: both DELETE statements select by user_courses.course_id
unenroll_from_course(crs, ucs, user_id, course_id) ==
    LET hit == {e \in ucs : e.user_id = user_id /\ e.course_id = course_id}
        hit2 == {e \in ucs \ hit : /\ e.user_id = user_id
                                   /\ e.course_id \in {c.id : c \in {d \in crs : d.id = course_id}}}
    IN  IF hit # {} THEN [user_courses |-> ucs \ hit, ret |-> TRUE]
        ELSE [user_courses |-> ucs \ hit2, ret |-> hit2 # {}]

\* database.py:101-118: one course of the record; INSERT OR REPLACE deletes the
\* row of (user_id, course_id) and inserts a new one
AddCourseGrade(crs, cseq, ucs, useq, course, user_id) ==
    LET res == {c \in crs : c.code = course.course_code}
        course_id == IF res # {} THEN (CHOOSE c \in res : TRUE).id ELSE cseq + 1
        crs1 == IF res # {} THEN crs
                ELSE crs \cup {[id |-> cseq + 1, name |-> course.course_code,
                                code |-> course.course_code,
                                credits |-> Some(course.credits), semester |-> 1]}
        old == {e \in ucs : e.user_id = user_id /\ e.course_id = course_id}
    IN  [courses |-> crs1,
         courses_seq |-> IF res # {} THEN cseq ELSE cseq + 1,
         user_courses |-> (ucs \ old) \cup
             {[id |-> useq + 1, user_id |-> user_id, course_id |-> course_id,
               grade |-> course.grade_point,
               status |-> IF course.grade_point # None THEN "completed" ELSE "active"]},
         user_courses_seq |-> useq + 1]

\* database.py:97-119
RECURSIVE add_academic_record(_, _, _, _, _, _)
add_academic_record(crs, cseq, ucs, useq, record, user_id) ==
    IF record = <<>> THEN [courses |-> crs, courses_seq |-> cseq, user_courses |-> ucs,
                           user_courses_seq |-> useq]
    ELSE LET r == AddCourseGrade(crs, cseq, ucs, useq, Head(record), user_id) IN
         add_academic_record(r.courses, r.courses_seq, r.user_courses, r.user_courses_seq,
                             Tail(record), user_id)

\* database.py:127-133: the join of user_courses with courses for one user,
\* in rowid order
RECURSIVE HistoryRows(_, _, _)
HistoryRows(crs, ucs, user_id) ==
    LET mine == {e \in ucs : e.user_id = user_id /\ \E c \in crs : c.id = e.course_id} IN
    IF mine = {} THEN <<>>
    ELSE LET e == CHOOSE x \in mine : \A y \in mine : x.id <= y.id
             c == CHOOSE c \in crs : c.id = e.course_id
         IN  <<[code |-> c.code, name |-> c.name, credits |-> c.credits,
                semester |-> c.semester, grade |-> e.grade]>>
             \o HistoryRows(crs, ucs \ {e}, user_id)

\* a slip: `if row['grade']:` in place of `is not None`
Graded_truthy(row) == TruthyNum(row.grade)

\* database.py:152
Graded(row) == row.grade # None

\* database.py:139-154: the loop over the rows; total is <<total_credits, total_points>>
RECURSIVE Totals(_)
Totals(rows) ==
    IF rows = <<>> THEN <<0, 0>>
    ELSE LET t == Totals(SubSeq(rows, 1, Len(rows) - 1))
             row == rows[Len(rows)]
         IN  IF Graded(row)
             THEN <<t[1] + row.credits[1], t[2] + row.grade[1] * row.credits[1]>>
             ELSE t

\* database.py:121-168; cgpa is the fraction <<numerator, denominator>>
get_full_academic_history(crs, ucs, user_id) ==
    LET rows == HistoryRows(crs, ucs, user_id)
        total_credits == Totals(rows)[1]
        total_points == Totals(rows)[2]
    IN  [semesters |-> [sem \in {r.semester : r \in {rows[i] : i \in DOMAIN rows}} |->
                            SelectSeq(rows, LAMBDA r : r.semester = sem)],
         cumulative_credits |-> total_credits,
         cgpa |-> IF total_credits > 0 THEN <<total_points, total_credits>> ELSE <<0, 1>>]

\* database.py:180-191
get_enrolled_courses(crs, ucs, user_id) ==
    {[id |-> c.id, name |-> c.name, code |-> c.code, credits |-> c.credits,
      status |-> e.status, semester |-> c.semester] :
        <<e, c>> \in {x \in ucs \X crs : /\ x[1].course_id = x[2].id
                                         /\ x[1].user_id = user_id
                                         /\ x[1].status = "active"}}

(***************************************************************************)
(* The calls on enrollment: POST /enroll and DELETE /unenroll (api.py:232-  *)
(* 258), the enroll and unenroll tools (utils.py:118-196), both for user 1; *)
(* add_academic_record; and the history read of academic_agent.             *)
(***************************************************************************)
MaxEnrollments == 3     \* rows ever inserted into user_courses
MaxCourses == 3         \* rows ever inserted into courses

EnrollCall(op, via, user_id, course_id, course_name, course_code, credits, ret, raised) ==
    [op |-> op, via |-> via, user_id |-> user_id, course_id |-> course_id,
     course_name |-> course_name, course_code |-> course_code, credits |-> credits,
     ret |-> ret, raised |-> raised]

\* utils.py:129-134: `course_name.lower() in c['name'].lower()`, for the
\* queries of the model, which are whole names and codes
NameMatches(q, c) == q = c.name \/ q = c.code

\* utils.py:118-164 enroll_student_in_course: the id is looked up by name when
\* only a name is given, checked against the catalogue, and enrolled for
\* user 1.  `called` tells whether the gateway was called, with id `course_id`.
enroll_student_in_course(crs, cseq, ucs, useq, course_id, course_name) ==
    LET byName == {c \in get_all_courses : NameMatches(course_name[1], c)}
        id1 == IF course_id = None /\ TruthyStr(course_name) /\ byName # {}
               THEN Some((CHOOSE c \in byName : \A d \in byName : c.id <= d.id).id)
               ELSE course_id
    IN  IF id1 = None \/ ~\E c \in get_all_courses : c.id = id1[1]
        THEN [called |-> FALSE, course_id |-> 0,
              r |-> EnrollResult(crs, cseq, ucs, useq, FALSE, FALSE)]
        ELSE [called |-> TRUE, course_id |-> id1[1],
              r |-> enroll_in_course(crs, cseq, ucs, useq, 1, id1[1], None, None, None)]

\* api.py:238-250 POST /enroll
enroll_course(req) ==
    LET r == enroll_in_course(courses, courses_seq, user_courses, user_courses_seq,
                              1, req.course_id, Some(req.course_name),
                              Some(req.course_code), Some(req.credits)) IN
    /\ r.user_courses_seq <= MaxEnrollments
    /\ r.courses_seq <= MaxCourses
    /\ courses' = r.courses
    /\ courses_seq' = r.courses_seq
    /\ user_courses' = r.user_courses
    /\ user_courses_seq' = r.user_courses_seq
    /\ last' = EnrollCall("enroll_in_course", "api", 1, req.course_id, Some(req.course_name),
                          Some(req.course_code), Some(req.credits), r.ret, r.raised)
    /\ UNCHANGED <<eventVars, chatVars, procVars>>

\* the enroll tool called on the store
enroll_tool_call(course_id, course_name) ==
    LET t == enroll_student_in_course(courses, courses_seq, user_courses,
                                      user_courses_seq, course_id, course_name) IN
    /\ t.r.user_courses_seq <= MaxEnrollments
    /\ t.r.courses_seq <= MaxCourses
    /\ courses' = t.r.courses
    /\ courses_seq' = t.r.courses_seq
    /\ user_courses' = t.r.user_courses
    /\ user_courses_seq' = t.r.user_courses_seq
    /\ last' = IF t.called
               THEN EnrollCall("enroll_in_course", "enroll_student_in_course", 1,
                               t.course_id, None, None, None, t.r.ret, t.r.raised)
               ELSE EnrollCall("none", "enroll_student_in_course", 1, 0, course_name,
                               None, None, FALSE, FALSE)
    /\ UNCHANGED <<eventVars, chatVars, procVars>>

unenroll_call(via, course_id) ==
    LET r == unenroll_from_course(courses, user_courses, 1, course_id) IN
    /\ user_courses' = r.user_courses
    /\ last' = EnrollCall("unenroll_from_course", via, 1, course_id, None, None, None,
                          r.ret, FALSE)
    /\ UNCHANGED <<courses, courses_seq, user_courses_seq, eventVars, chatVars, procVars>>

\* api.py:252-258 DELETE /unenroll/{course_id}
unenroll_course(course_id) == unenroll_call("api", course_id)

\* utils.py:167-196 unenroll_student_from_course: a name is looked up among
\* the active enrollments of user 1, whose ids are those of table courses
unenroll_student_from_course(course_id, course_name) ==
    LET mine == get_enrolled_courses(courses, user_courses, 1)
        byName == {c \in mine : NameMatches(course_name[1], c)}
        id1 == IF course_id = None /\ TruthyStr(course_name) /\ byName # {}
               THEN Some((CHOOSE c \in byName : \A d \in byName : c.id <= d.id).id)
               ELSE course_id
    IN  IF id1 = None
        THEN /\ last' = EnrollCall("none", "unenroll_student_from_course", 1, 0,
                                   course_name, None, None, FALSE, FALSE)
             /\ UNCHANGED <<eventVars, chatVars, enrollVars, procVars>>
        ELSE unenroll_call("unenroll_student_from_course", id1[1])

add_academic_record_call(record, user_id) ==
    LET r == add_academic_record(courses, courses_seq, user_courses, user_courses_seq,
                                 record, user_id) IN
    /\ r.user_courses_seq <= MaxEnrollments
    /\ r.courses_seq <= MaxCourses
    /\ courses' = r.courses
    /\ courses_seq' = r.courses_seq
    /\ user_courses' = r.user_courses
    /\ user_courses_seq' = r.user_courses_seq
    /\ last' = [op |-> "add_academic_record", user_id |-> user_id]
    /\ UNCHANGED <<eventVars, chatVars, procVars>>

\* agents/academic.py:17 db_manager.get_full_academic_history(user_id=1)
get_history_call(user_id) ==
    /\ last' = [op |-> "get_full_academic_history", user_id |-> user_id,
                ret |-> get_full_academic_history(courses, user_courses, user_id)]
    /\ UNCHANGED <<eventVars, chatVars, enrollVars, procVars>>

EnrollRequests ==
    {[course_id |-> c.id, course_name |-> c.name, course_code |-> c.code,
      credits |-> c.credits] : c \in Catalogue}
    \cup {[course_id |-> 1, course_name |-> "Algorithms", course_code |-> "CS1", credits |-> 0],
          [course_id |-> 9, course_name |-> "Ghost", course_code |-> "", credits |-> 3]}

CourseIds == {1, 2, 3, 9}

GradeEntries ==
    {[course_code |-> "CS1", credits |-> 3, grade_point |-> Some(4)],
     [course_code |-> "MA1", credits |-> 4, grade_point |-> Some(3)],
     [course_code |-> "MA1", credits |-> 4, grade_point |-> Some(0)],
     [course_code |-> "PH1", credits |-> 2, grade_point |-> None]}

EnrollCourse == \E req \in EnrollRequests : enroll_course(req)

EnrollTool ==
    \/ \E id \in CourseIds : enroll_tool_call(Some(id), None)
    \/ \E q \in {"Calculus", "PH1", "Zoology"} : enroll_tool_call(None, Some(q))

UnenrollCourse == \E id \in CourseIds : unenroll_course(id)

UnenrollTool ==
    \/ \E id \in CourseIds : unenroll_student_from_course(Some(id), None)
    \/ \E q \in {"Calculus", "Zoology"} : unenroll_student_from_course(None, Some(q))

AddAcademicRecord ==
    \E e \in GradeEntries, u \in Users : add_academic_record_call(<<e>>, u)

GetHistory == \E u \in Users : get_history_call(u)

NextEnroll ==
    \/ EnrollCourse
    \/ EnrollTool
    \/ UnenrollCourse
    \/ UnenrollTool
    \/ AddAcademicRecord
    \/ GetHistory

SpecEnroll == Init /\ [][NextEnroll]_vars

(***************************************************************************)
(* Enrolling twice                                                         *)
(***************************************************************************)
\* the code a call enrolls under: the one given, else the catalogue's
EffectiveCode(call) ==
    IF TruthyStr(call.course_code) THEN call.course_code[1]
    ELSE (CHOOSE c \in Catalogue : c.id = call.course_id).code

ActiveRowsOf(crs, ucs, user_id, code) ==
    {e \in ucs : /\ e.user_id = user_id
                 /\ e.status = "active"
                 /\ \E c \in crs : c.code = code /\ c.id = e.course_id}

IsCatalogueEnroll(call) ==
    /\ call.op = "enroll_in_course"
    /\ ~call.raised
    /\ \E c \in Catalogue : c.id = call.course_id

\* C3: for a user U and a course id C of the catalogue, U having no active
\* enrollment in C, enroll_in_course(U, C) returns True and leaves exactly one
\* active row of (U, C); the same call made again immediately after returns
\* False and the active rows of (U, C) are still exactly one.
C3_EnrollTwice ==
    [][ /\ (IsCatalogueEnroll(last')
            /\ ActiveRowsOf(courses, user_courses, last'.user_id, EffectiveCode(last')) = {})
           => /\ last'.ret
              /\ Cardinality(ActiveRowsOf(courses', user_courses', last'.user_id,
                                          EffectiveCode(last'))) = 1
        /\ (/\ IsCatalogueEnroll(last) /\ last.ret
            /\ IsCatalogueEnroll(last')
            /\ last'.user_id = last.user_id
            /\ last'.course_id = last.course_id
            /\ EffectiveCode(last') = EffectiveCode(last))
           => /\ ~last'.ret
              /\ Cardinality(ActiveRowsOf(courses', user_courses', last'.user_id,
                                          EffectiveCode(last'))) = 1
              /\ user_courses' = user_courses
      ]_vars

\* a second enrollment in a catalogue course has been refused
C3_Witness ==
    /\ IsCatalogueEnroll(last)
    /\ ~last.ret
    /\ Cardinality(ActiveRowsOf(courses, user_courses, last.user_id, EffectiveCode(last))) = 1

\* C29: for a user U and a course id C of the catalogue, after
\* enroll_in_course(U, C) has returned True, unenroll_from_course(U, C) with the
\* same id returns True, removes exactly the enrollment row of (U, C) and no
\* row of another course, and U's active enrollments no longer hold C.
C29_EnrollUnenrollRoundTrip ==
    [][(/\ IsCatalogueEnroll(last) /\ last.ret
        /\ last'.op = "unenroll_from_course"
        /\ last'.user_id = last.user_id
        /\ last'.course_id = last.course_id)
       => /\ last'.ret
          /\ user_courses' = user_courses \ ActiveRowsOf(courses, user_courses, last.user_id,
                                                         EffectiveCode(last))
          /\ ActiveRowsOf(courses', user_courses', last.user_id, EffectiveCode(last)) = {}
      ]_vars

\* C30: an enroll_in_course call that returns False (the user is actively
\* enrolled already, or no course information is found) changes no row of
\* table courses and no row of table user_courses.
C30_FailedEnrollChangesNothing ==
    [][(last'.op = "enroll_in_course" /\ ~last'.ret /\ ~last'.raised)
       => (courses' = courses /\ user_courses' = user_courses)]_vars

(***************************************************************************)
(* Cumulative GPA                                                          *)
(***************************************************************************)
RECURSIVE SetSum(_, _)
SetSum(S, f) ==
    IF S = {} THEN 0
    ELSE LET x == CHOOSE x \in S : TRUE IN f[x] + SetSum(S \ {x}, f)

GradedCoursesOf(user_id) ==
    {e \in user_courses : /\ e.user_id = user_id
                          /\ e.grade # None
                          /\ \E c \in courses : c.id = e.course_id}

CreditsOf(e) == (CHOOSE c \in courses : c.id = e.course_id).credits[1]

\* C8: for a user with at least one graded course, get_full_academic_history
\* returns cumulative_credits = the sum of the credits of the graded courses
\* and cgpa = (sum of grade * credits over the graded courses) / that sum of
\* credits; a course without a grade is in neither sum.  (The quotient is
\* stated where the sum of credits is positive.)
C8_CgpaFormula ==
    (last.op = "get_full_academic_history" /\ GradedCoursesOf(last.user_id) # {})
    => LET graded == GradedCoursesOf(last.user_id)
           sumCredits == SetSum(graded, [e \in graded |-> CreditsOf(e)])
           sumPoints == SetSum(graded, [e \in graded |-> e.grade[1] * CreditsOf(e)])
       IN  /\ last.ret.cumulative_credits = sumCredits
           /\ sumCredits > 0 => last.ret.cgpa = <<sumPoints, sumCredits>>

\* the history of credits/grades (3, 4), (4, 3), (2, no grade) is 24/7
C8_Witness ==
    /\ last.op = "get_full_academic_history"
    /\ last.ret.cgpa = <<24, 7>>
    /\ \E e \in user_courses : e.user_id = last.user_id /\ e.grade = None
    /\ Cardinality(GradedCoursesOf(last.user_id)) = 2

(***************************************************************************)
(* The graph state (ched_backend.py:231-246) and verifier_agent            *)
(* (agents/verifier.py).  An agent output is None or Some(record).  A call  *)
(* of the language model returns a reply or raises; a reply parses as the   *)
(* structured output or does not.                                           *)
(***************************************************************************)
\* langchain messages; of_user is bookkeeping of the model: the user whose
\* request contributed the message (a message of the program carries no user)
HumanMessage(content, of_user) == [type |-> "human", content |-> content, of_user |-> of_user]

AIMessage(content, of_user) == [type |-> "ai", content |-> content, of_user |-> of_user]

\* models.py:137 messages: Annotated[list, add_messages]: an update of the
\* channel is appended to the value the checkpoint of the thread holds
add_messages(left, right) == left \o right

initial_state(user_query, user_id) ==
    [messages |-> <<HumanMessage(user_query, user_id)>>,
     user_query |-> user_query, user_id |-> user_id,
     orchestrator_output |-> None, rag_output |-> None, scheduler_output |-> None,
     verifier_output |-> None, chat_output |-> None, academic_output |-> None,
     final_response |-> <<>>, error |-> None]

\* models.py:97-104
SchedulerOutput(proposed_events, deleted_event_ids, scheduling_rationale) ==
    [proposed_events |-> proposed_events, deleted_event_ids |-> deleted_event_ids,
     scheduling_rationale |-> scheduling_rationale]

\* models.py:107-115
VerifierOutput(is_valid, conflicts, warnings, approved_events, approved_deletions, rejected_events, verification_notes) ==
    [is_valid |-> is_valid, conflicts |-> conflicts, warnings |-> warnings,
     approved_events |-> approved_events, approved_deletions |-> approved_deletions,
     rejected_events |-> rejected_events, verification_notes |-> verification_notes]

\* a slip: a verifier that rejects the proposal when the call fails
verifier_on_error_reject(proposed_events, proposed_deletions, e) ==
    VerifierOutput(FALSE, <<>>, <<e>>, <<>>, <<>>, proposed_events,
                   <<"Rejected due to error", e>>)

\* agents/verifier.py:94-107, the verifier_output of the except branch
verifier_on_error(proposed_events, proposed_deletions, e) ==
    VerifierOutput(TRUE, <<>>, <<e>>, proposed_events, proposed_deletions, <<>>,
                   <<"Auto-approved due to error", e>>)

\* agents/verifier.py:76-85: the result built when the reply does not parse;
\* it has no approved_deletions (result.get gives None)
verifier_on_parse_error(proposed_events, parse_error) ==
    VerifierOutput(TRUE, <<>>, << <<"Parse warning", parse_error>> >>, proposed_events,
                   <<>>, <<>>, <<"Auto-approved (parser issue", parse_error>>)

\* agents/verifier.py:87-91
fill_approvals(result, proposed_events, proposed_deletions) ==
    IF result.is_valid
    THEN [result EXCEPT
            !.approved_events = IF @ = <<>> THEN proposed_events ELSE @,
            !.approved_deletions = IF @ = <<>> THEN proposed_deletions ELSE @]
    ELSE result

\* agents/verifier.py:7-107: the update verifier_agent returns for a state
verifier_agent(st, llm) ==
    IF st.scheduler_output = None
    THEN [verifier_output |-> Some([is_valid |-> FALSE,
                                    verification_notes |-> <<"No scheduler output to verify">>]),
          error |-> st.error]
    ELSE LET scheduler_output == st.scheduler_output[1]
             proposed_events == scheduler_output.proposed_events
             proposed_deletions == scheduler_output.deleted_event_ids
         IN  IF proposed_events = <<>> /\ proposed_deletions = <<>>
             THEN [verifier_output |->
                       Some(VerifierOutput(TRUE, <<>>, <<>>, <<>>, <<>>, <<>>,
                                           scheduler_output.scheduling_rationale)),
                   error |-> st.error]
             ELSE IF llm.kind = "raise"
             THEN [verifier_output |->
                       Some(verifier_on_error(proposed_events, proposed_deletions, llm.e)),
                   error |-> Some(llm.e)]
             ELSE [verifier_output |->
                       Some(fill_approvals(
                            IF llm.kind = "unparseable"
                            THEN verifier_on_parse_error(proposed_events, llm.e)
                            ELSE llm.parsed,
                            proposed_events, proposed_deletions)),
                   error |-> st.error]

ProposedEvents == {<<>>, <<"e1">>, <<"e1", "e2">>}
ProposedDeletions == {<<>>, <<"7">>, <<"7", "8">>}

Proposals ==
    {SchedulerOutput(ev, del, <<"rationale">>) : ev \in ProposedEvents, del \in ProposedDeletions}

Failures == {"timeout", "bad json"}

VerifierReplies ==
    {[kind |-> "raise", e |-> e] : e \in Failures}
    \cup {[kind |-> "unparseable", e |-> e] : e \in Failures}
    \cup {[kind |-> "parsed",
           parsed |-> VerifierOutput(v, c, <<>>, ev, del, <<>>, <<"checked">>)] :
            v \in BOOLEAN, c \in {<<>>, <<"overlap">>},
            ev \in {<<>>, <<"e1">>}, del \in {<<>>, <<"7">>}}

\* verifier_agent applied to a state that holds a scheduler output or none
VerifierAgent ==
    /\ state.verifier_output = None
    /\ \E llm \in VerifierReplies :
          LET u == verifier_agent(state, llm) IN
          /\ state' = [state EXCEPT !.verifier_output = u.verifier_output,
                                    !.error = u.error]
          /\ last' = [op |-> "verifier_agent", llm |-> llm]
    /\ UNCHANGED <<eventVars, chatVars, enrollVars, agent, run>>

InitVerifier ==
    /\ InitStore
    /\ agent = Idle
    /\ run = Idle
    /\ \E so \in {None} \cup {Some(p) : p \in Proposals} :
          state = [initial_state("q", "1") EXCEPT !.scheduler_output = so]

NextVerifier == VerifierAgent

SpecVerifier == InitVerifier /\ [][NextVerifier]_vars

VerifierFailed ==
    /\ last.op = "verifier_agent"
    /\ last.llm.kind \in {"raise", "unparseable"}
    /\ state.scheduler_output # None
    /\ \/ state.scheduler_output[1].proposed_events # <<>>
       \/ state.scheduler_output[1].deleted_event_ids # <<>>

\* C5: when the verification call raises or its reply does not parse as a
\* VerificationResult, for a proposal with at least one proposed event or
\* deletion, the verification result has is_valid = true, approved_events =
\* the proposed events, approved_deletions = the proposed deletions, and the
\* failure reason only in warnings and notes (no conflict, no rejected event).
C5_VerifierFailOpen ==
    VerifierFailed
    => LET vo == state.verifier_output[1]
           so == state.scheduler_output[1]
       IN  /\ vo.is_valid
           /\ vo.approved_events = so.proposed_events
           /\ vo.approved_deletions = so.deleted_event_ids
           /\ vo.conflicts = <<>>
           /\ vo.rejected_events = <<>>
           /\ vo.warnings # <<>>
           /\ vo.verification_notes[2] = last.llm.e

\* the call has raised on a proposal of two events and one deletion, and all
\* three are approved
C5_Witness ==
    /\ VerifierFailed
    /\ last.llm.kind = "raise"
    /\ state.verifier_output[1].approved_events = <<"e1", "e2">>
    /\ state.verifier_output[1].approved_deletions = <<"7">>

(***************************************************************************)
(* The tool loops of scheduler_agent (agents/scheduler.py:71-203) and of    *)
(* academic_agent (agents/academic.py:61-103).  An agent run is cut at the  *)
(* calls of the language model: the first call, then one step per round of  *)
(* the while loop (all the tool calls of the reply, then the next call),    *)
(* then the return.                                                         *)
(***************************************************************************)
SchedulerMaxIterations == 6
AcademicMaxIterations == 3

\* agents/scheduler.py:90-104
scheduler_tool_map ==
    {"get_current_date", "list_calendar_events", "search_calendar", "add_event",
     "delete_calendar_event", "delete_events_on_date", "update_calendar_event",
     "clear_full_calendar", "list_available_courses", "enroll_student_in_course",
     "unenroll_student_from_course", "get_my_enrolled_courses", "retrieve_from_docs"}

\* agents/academic.py:67-74
academic_tool_map ==
    {"get_current_date", "list_available_courses", "enroll_student_in_course",
     "unenroll_student_from_course", "get_my_enrolled_courses", "retrieve_from_docs"}

\* a slip: every tool may run again
RerunAllowedAll ==
    {"get_current_date", "list_calendar_events", "search_calendar", "add_event",
     "retrieve_from_docs"}

\* agents/scheduler.py:118
RerunAllowed == {"list_calendar_events", "search_calendar", "retrieve_from_docs"}

ToolCall(name, title, start_datetime, priority, course_id) ==
    [name |-> name,
     args |-> [title |-> title, start_datetime |-> start_datetime,
               priority |-> priority, course_id |-> course_id]]

NoArgs(name) == ToolCall(name, "", <<>>, <<>>, None)

\* agents/scheduler.py:127-132: int(user_id) if str(user_id).isdigit() else 1,
\* on the user ids of the model
user_id_val(user_id) == IF user_id = "1" THEN 1 ELSE IF user_id = "2" THEN 2 ELSE 1

Store ==
    [user_schedule |-> user_schedule, schedule_seq |-> schedule_seq,
     courses |-> courses, courses_seq |-> courses_seq,
     user_courses |-> user_courses, user_courses_seq |-> user_courses_seq]

\* tool_map[t_name].invoke(t_args) for the tools the replies of the model name:
\* add_event (utils.py:46-70), enroll_student_in_course (utils.py:118-164),
\* retrieve_from_docs (utils.py:213-232), whose required query the argument
\* record carries as its title ("" when the reply gave none: the validation
\* of the arguments raises), and tools that only read
invoke_tool(db, call, user_id) ==
    IF call.name = "add_event"
    THEN IF ~ScheduleEventValid(call.args.priority)
         THEN [db |-> db, raised |-> TRUE]
         ELSE LET event == ScheduleEvent(call.args.title, call.args.start_datetime, EndTs,
                                         call.args.priority, General, "", "agent")
                  r == add_schedule_event(db.user_schedule, db.schedule_seq, event, user_id)
              IN  [db |-> [db EXCEPT !.user_schedule = r.rows, !.schedule_seq = r.seq],
                   raised |-> FALSE]
    ELSE IF call.name = "enroll_student_in_course"
    THEN CHOOSE res \in
             {[db |-> [db EXCEPT !.courses = t.r.courses, !.courses_seq = t.r.courses_seq,
                                 !.user_courses = t.r.user_courses,
                                 !.user_courses_seq = t.r.user_courses_seq],
               raised |-> t.r.raised] :
              t \in {enroll_student_in_course(db.courses, db.courses_seq, db.user_courses,
                                              db.user_courses_seq, call.args.course_id,
                                              None)}} : TRUE
    ELSE IF call.name = "retrieve_from_docs"
    THEN [db |-> db, raised |-> call.args.title = ""]
    ELSE [db |-> db, raised |-> FALSE]

\* agents/scheduler.py:109-144: the for loop over the tool calls of one reply
RECURSIVE scheduler_tool_calls(_, _, _)
scheduler_tool_calls(calls, acc, user_id) ==
    IF calls = <<>> THEN acc
    ELSE LET tool_call == Head(calls)
             action_signature == <<tool_call.name, tool_call.args>>
             next ==
                 IF action_signature \in acc.executed_actions
                    /\ tool_call.name \notin RerunAllowed
                 THEN [acc EXCEPT !.tool_context = Append(@, "already executed"),
                                  !.processed = @ + 1]
                 ELSE IF tool_call.name \in scheduler_tool_map
                 THEN LET res == invoke_tool(acc.db, tool_call, user_id) IN
                      IF res.raised
                      THEN [acc EXCEPT !.tool_context = Append(@, "Tool Error"),
                                       !.processed = @ + 1, !.failed = @ + 1]
                      ELSE [db |-> res.db,
                            executed_actions |-> acc.executed_actions \cup {action_signature},
                            tool_context |-> Append(acc.tool_context, "Tool Result"),
                            new_actions_performed |-> TRUE,
                            raised |-> FALSE,
                            processed |-> acc.processed + 1, failed |-> acc.failed]
                 ELSE [acc EXCEPT !.tool_context = Append(@, "Tool not found"),
                                  !.processed = @ + 1]
         IN  CHOOSE out \in {scheduler_tool_calls(Tail(calls), n, user_id) : n \in {next}} : TRUE

\* agents/academic.py:89-93: the for loop; a tool that raises ends the loop
\* (the exception goes to the except of line 102).  processed counts the tool
\* calls the loop has dealt with, failed those whose invoke raised.
RECURSIVE academic_tool_calls(_, _)
academic_tool_calls(calls, acc) ==
    IF calls = <<>> \/ acc.raised THEN acc
    ELSE LET tool_call == Head(calls)
             next ==
                 IF tool_call.name \in academic_tool_map
                 THEN LET res == invoke_tool(acc.db, tool_call, 1) IN
                      IF res.raised THEN [acc EXCEPT !.raised = TRUE, !.failed = @ + 1]
                      ELSE [acc EXCEPT !.db = res.db,
                                       !.tool_context = Append(@, "ToolMessage"),
                                       !.processed = @ + 1]
                 ELSE [acc EXCEPT !.processed = @ + 1]
         IN  CHOOSE out \in {academic_tool_calls(Tail(calls), n) : n \in {next}} : TRUE

ToolAcc(db, executed_actions) ==
    [db |-> db, executed_actions |-> executed_actions, tool_context |-> <<>>,
     new_actions_performed |-> FALSE, raised |-> FALSE, processed |-> 0, failed |-> 0]

AgentFrame(name, pc, iterations, llm_calls, executed_actions, response, broke) ==
    [name |-> name, pc |-> pc, iterations |-> iterations, llm_calls |-> llm_calls,
     executed_actions |-> executed_actions, response |-> response, broke |-> broke]

NoResponse == [tool_calls |-> <<>>, content |-> [kind |-> "text", text |-> ""]]

Response(reply) == [tool_calls |-> reply.tool_calls, content |-> reply.content]

\* ched_backend.py:261-264: a token chunk for every streamed piece of a reply
\* of the model whose content is not empty
on_chat_model_stream(r, reply) ==
    IF r.pc = "streaming" /\ reply.kind = "reply"
    THEN [r EXCEPT !.chunks = @ \o [i \in 1..Len(SelectSeq(reply.streamed, LAMBDA c : c # "")) |->
                                       [type |-> "token",
                                        content |-> SelectSeq(reply.streamed, LAMBDA c : c # "")[i]]]]
    ELSE r

\* ched_backend.py:193-209: the edge out of a node of the compiled graph, taken
\* when the node has returned (visited lists the nodes that have returned);
\* an agent called outside a graph run has no edge to follow
graph_edge(r, node) ==
    IF r.pc = "streaming" THEN [r EXCEPT !.node = node, !.visited = Append(@, r.node)] ELSE r

StoreUpdate(db) ==
    /\ user_schedule' = db.user_schedule
    /\ schedule_seq' = db.schedule_seq
    /\ courses' = db.courses
    /\ courses_seq' = db.courses_seq
    /\ user_courses' = db.user_courses
    /\ user_courses_seq' = db.user_courses_seq

\* agents/scheduler.py:196-203
scheduler_fallback(st, e) ==
    [st EXCEPT !.scheduler_output = Some(SchedulerOutput(<<>>, <<>>, <<"Error in scheduling", e>>)),
               !.error = Some(e)]

\* agents/scheduler.py:71-77: the first call of the model
scheduler_start(reply) ==
    /\ agent.pc = "idle"
    /\ run.node = "scheduler"
    /\ IF reply.kind = "raise"
       THEN /\ state' = scheduler_fallback(state, reply.e)
            /\ agent' = AgentFrame("scheduler", "returned", 0, 1, {}, NoResponse, FALSE)
            /\ run' = graph_edge(run, "synthesize")
       ELSE /\ state' = state
            /\ agent' = AgentFrame("scheduler", "loop", 0, 1, {}, Response(reply), FALSE)
            /\ run' = on_chat_model_stream(run, reply)
    /\ last' = [op |-> "scheduler_llm.invoke"]
    /\ UNCHANGED <<eventVars, chatVars, enrollVars>>

\* a slip: one round more
SchedulerLoopGuardOffByOne(a) ==
    a.response.tool_calls # <<>> /\ a.iterations <= SchedulerMaxIterations

\* agents/scheduler.py:82 the condition of the while loop
SchedulerLoopGuard(a) ==
    a.response.tool_calls # <<>> /\ a.iterations < SchedulerMaxIterations

\* agents/scheduler.py:82-161: one round of the loop
scheduler_round(reply) ==
    /\ agent.pc = "loop" /\ agent.name = "scheduler"
    /\ ~agent.broke
    /\ SchedulerLoopGuard(agent)
    /\ \E iterations \in {agent.iterations + 1},
          acc \in {scheduler_tool_calls(agent.response.tool_calls,
                                        ToolAcc(Store, agent.executed_actions),
                                        user_id_val(state.user_id))} :
           /\ StoreUpdate(acc.db)
           /\ IF (~acc.new_actions_performed /\ iterations > 1) \/ acc.tool_context = <<>>
              THEN /\ agent' = [agent EXCEPT !.iterations = iterations,
                                             !.executed_actions = acc.executed_actions,
                                             !.broke = TRUE]
                   /\ UNCHANGED <<state, run>>
              ELSE IF reply.kind = "raise"
              THEN /\ state' = scheduler_fallback(state, reply.e)
                   /\ agent' = [agent EXCEPT !.pc = "returned",
                                             !.iterations = iterations,
                                             !.llm_calls = @ + 1,
                                             !.executed_actions = acc.executed_actions]
                   /\ run' = graph_edge(run, "synthesize")
              ELSE /\ agent' = [agent EXCEPT !.iterations = iterations,
                                             !.llm_calls = @ + 1,
                                             !.executed_actions = acc.executed_actions,
                                             !.response = Response(reply)]
                   /\ run' = on_chat_model_stream(run, reply)
                   /\ state' = state
           /\ last' = [op |-> "scheduler_round", calls |-> Len(agent.response.tool_calls),
                       processed |-> acc.processed, failed |-> acc.failed,
                       tool_context |-> acc.tool_context,
                       executed_before |-> agent.executed_actions,
                       tool_calls |-> agent.response.tool_calls,
                       new_actions_performed |-> acc.new_actions_performed,
                       llm |-> IF agent'.llm_calls = agent.llm_calls THEN "none" ELSE reply.kind]
    /\ UNCHANGED <<chatVars>>

\* agents/scheduler.py:164-190: the reply parses as SchedulerOutput, directly
\* or from its fenced json block, or its text becomes the rationale
scheduler_parse(content) ==
    IF content.kind = "json" THEN content.parsed
    ELSE SchedulerOutput(<<>>, <<>>, <<content.text>>)

\* agents/scheduler.py:163-194: after the loop
scheduler_return ==
    /\ agent.pc = "loop" /\ agent.name = "scheduler"
    /\ agent.broke \/ ~SchedulerLoopGuard(agent)
    /\ state' = [state EXCEPT !.scheduler_output = Some(scheduler_parse(agent.response.content))]
    /\ agent' = [agent EXCEPT !.pc = "returned"]
    /\ run' = graph_edge(run, "synthesize")
    /\ last' = [op |-> "scheduler_return"]
    /\ UNCHANGED <<eventVars, chatVars, enrollVars>>

\* the text of a reply
content_text(content) == IF content.kind = "json" THEN "{json}" ELSE content.text

\* agents/academic.py:102-103
academic_error(st, e) == [st EXCEPT !.error = Some(<<"Academic execution error", e>>)]

\* agents/academic.py:13-65: the history read of line 17, then the first call
\* of the model
academic_start(reply) ==
    /\ agent.pc = "idle"
    /\ run.node = "academic"
    /\ IF reply.kind = "raise"
       THEN /\ state' = academic_error(state, reply.e)
            /\ agent' = AgentFrame("academic", "returned", 0, 1, {}, NoResponse, FALSE)
            /\ run' = graph_edge(run, "synthesize")
       ELSE /\ state' = state
            /\ agent' = AgentFrame("academic", "loop", 0, 1, {}, Response(reply), FALSE)
            /\ run' = on_chat_model_stream(run, reply)
    /\ last' = [op |-> "chat_llm_with_tools.invoke"]
    /\ UNCHANGED <<eventVars, chatVars, enrollVars>>

\* agents/academic.py:17: the history is read before the try block of line 55
\* is entered; a read that raises leaves the node by the exception, which
\* ends the graph run and the stream
academic_history_read_raises ==
    /\ agent.pc = "idle"
    /\ run.pc = "streaming" /\ run.node = "academic"
    /\ run' = [run EXCEPT !.pc = "failed"]
    /\ agent' = AgentFrame("academic", "raised", 0, 0, {}, NoResponse, FALSE)
    /\ last' = [op |-> "get_full_academic_history", raised |-> TRUE]
    /\ UNCHANGED <<eventVars, chatVars, enrollVars, state>>

\* agents/academic.py:77 the condition of the while loop
AcademicLoopGuard(a) ==
    a.response.tool_calls # <<>> /\ a.iterations < AcademicMaxIterations

\* agents/academic.py:77-96: one round of the loop
academic_round(reply) ==
    /\ agent.pc = "loop" /\ agent.name = "academic"
    /\ AcademicLoopGuard(agent)
    /\ \E acc \in {academic_tool_calls(agent.response.tool_calls, ToolAcc(Store, {}))} :
       /\ StoreUpdate(acc.db)
       /\ IF acc.raised
          THEN /\ state' = academic_error(state, "tool")
               /\ agent' = [agent EXCEPT !.pc = "returned", !.iterations = @ + 1]
               /\ run' = graph_edge(run, "synthesize")
          ELSE IF reply.kind = "raise"
          THEN /\ state' = academic_error(state, reply.e)
               /\ agent' = [agent EXCEPT !.pc = "returned", !.iterations = @ + 1,
                                         !.llm_calls = @ + 1]
               /\ run' = graph_edge(run, "synthesize")
          ELSE /\ state' = state
               /\ agent' = [agent EXCEPT !.iterations = @ + 1, !.llm_calls = @ + 1,
                                         !.response = Response(reply)]
               /\ run' = on_chat_model_stream(run, reply)
       /\ last' = [op |-> "academic_round", calls |-> Len(agent.response.tool_calls),
                   processed |-> acc.processed, failed |-> acc.failed,
                   tool_context |-> acc.tool_context,
                   llm |-> IF agent'.llm_calls = agent.llm_calls THEN "none" ELSE reply.kind]
    /\ UNCHANGED <<chatVars>>

\* agents/academic.py:98-100
academic_return ==
    /\ agent.pc = "loop" /\ agent.name = "academic"
    /\ ~AcademicLoopGuard(agent)
    /\ state' = [state EXCEPT !.academic_output =
                     Some([response |-> content_text(agent.response.content),
                           raw_content |-> content_text(agent.response.content)])]
    /\ agent' = [agent EXCEPT !.pc = "returned"]
    /\ run' = graph_edge(run, "synthesize")
    /\ last' = [op |-> "academic_return"]
    /\ UNCHANGED <<eventVars, chatVars, enrollVars>>

(***************************************************************************)
(* The agents called on their own, with every reply of the model.          *)
(***************************************************************************)
AddA == ToolCall("add_event", "A", <<1, 9>>, Low, None)
AddUrgent == ToolCall("add_event", "B", <<1, 9>>, Urgent, None)
ListEvents == NoArgs("list_calendar_events")
GetDate == NoArgs("get_current_date")
SendEmail == NoArgs("send_email")
MyCourses == NoArgs("get_my_enrolled_courses")
DocsNoQuery == NoArgs("retrieve_from_docs")
EnrollOne == ToolCall("enroll_student_in_course", "", <<>>, <<>>, Some(1))

MaxToolCalls == 2       \* tool calls in one reply of the model

SeqsUpTo(S, n) == UNION {[1..k -> S] : k \in 0..n}

ReplyContents ==
    {[kind |-> "json", parsed |-> SchedulerOutput(<<"e1">>, <<>>, <<"rationale">>)],
     [kind |-> "text", text |-> "done"]}

Replies(calls, n, contents, streams) ==
    {[kind |-> "reply", tool_calls |-> tc, content |-> c, streamed |-> st] :
        tc \in SeqsUpTo(calls, n), c \in contents, st \in streams}
    \cup {[kind |-> "raise", e |-> "timeout"]}

SchedulerReplies ==
    Replies({AddA, AddUrgent, ListEvents, SendEmail}, MaxToolCalls, ReplyContents, {<<>>})

AcademicReplies ==
    Replies({EnrollOne, MyCourses, AddA}, MaxToolCalls, {[kind |-> "text", text |-> "done"]},
            {<<>>})

DirectCall(node) ==
    [pc |-> "direct", node |-> node, chunks |-> <<>>, final_response_content |-> <<>>]

InitAgents ==
    /\ InitStore
    /\ agent = Idle
    /\ \E node \in {"scheduler", "academic"} : run = DirectCall(node)
    /\ \E user_id \in {"2", "default"} : state = initial_state("q", user_id)

SchedulerStart == \E reply \in SchedulerReplies : scheduler_start(reply)
SchedulerRound == \E reply \in SchedulerReplies : scheduler_round(reply)
SchedulerReturn == scheduler_return
AcademicStart == \E reply \in AcademicReplies : academic_start(reply)
AcademicRound == \E reply \in AcademicReplies : academic_round(reply)
AcademicReturn == academic_return

NextAgents ==
    \/ SchedulerStart
    \/ SchedulerRound
    \/ SchedulerReturn
    \/ AcademicStart
    \/ AcademicRound
    \/ AcademicReturn

\* the interpreter runs the agent on; every call of the model returns or raises
SpecAgents == InitAgents /\ [][NextAgents]_vars /\ WF_vars(NextAgents)

\* C6: whatever the model replies, the tool loop of an agent ends: the
\* scheduler runs at most 6 rounds and the academic agent at most 3, the model
\* is called at most 7 resp. 4 times in a run, and the agent returns.
C6_ToolLoopTerminates ==
    /\ [](agent.pc # "idle" =>
            /\ agent.name = "scheduler" => (agent.iterations <= 6 /\ agent.llm_calls <= 7)
            /\ agent.name = "academic" => (agent.iterations <= 3 /\ agent.llm_calls <= 4))
    /\ (agent.pc = "idle") ~> (agent.pc = "returned")

\* the scheduler has returned after 6 rounds and 7 calls of the model, an
\* add_event among the executed actions and its one event in the store
C6_Witness ==
    /\ agent.pc = "returned" /\ agent.name = "scheduler"
    /\ agent.iterations = 6 /\ agent.llm_calls = 7
    /\ <<AddA.name, AddA.args>> \in agent.executed_actions
    /\ Cardinality(user_schedule) = 1

(***************************************************************************)
(* The graph (ched_backend.py:173-211) under stream_query                   *)
(* (ched_backend.py:220-277): orchestrator, then the node the route names,  *)
(* then synthesize.  A text is the tuple of its parts; <<>> is the empty    *)
(* text.                                                                    *)
(***************************************************************************)
\* models.py:6-12
AgentType == {"rag", "scheduler", "chat", "calendar", "academic"}

\* models.py:48-55; confidence in tenths
OrchestratorOutput(intent, confidence, requires_context, reasoning) ==
    [intent |-> intent, confidence |-> confidence, requires_context |-> requires_context,
     reasoning |-> reasoning]

\* agents/orchestrator.py:121-133
orchestrator_fallback(st, e) ==
    [st EXCEPT !.orchestrator_output =
                   Some(OrchestratorOutput("chat", 1, FALSE, <<"Critical fallback", e>>)),
               !.error = Some(e)]

\* agents/orchestrator.py:66-133.  When the reply does not parse, the handler
\* of lines 94-115 reads lower_content, a name that is never assigned: the
\* NameError leaves the try of line 66 through the except of line 121.
orchestrator_agent(st, reply) ==
    IF reply.kind = "raise" THEN orchestrator_fallback(st, reply.e)
    ELSE IF reply.content.kind = "json"
    THEN [st EXCEPT !.orchestrator_output = Some(reply.content.parsed)]
    ELSE orchestrator_fallback(st, "name 'lower_content' is not defined")

\* ched_backend.py:132-151
route_after_orchestrator(st) ==
    LET orchestrator_output == st.orchestrator_output
        intent == IF orchestrator_output = None THEN "chat" ELSE orchestrator_output[1].intent
        requires_context == orchestrator_output # None /\ orchestrator_output[1].requires_context
    IN  IF intent = "scheduler" /\ requires_context THEN "rag"
        ELSE IF intent = "calendar" THEN "synthesize"
        ELSE IF intent \in {"rag", "scheduler", "academic", "chat"} THEN intent
        ELSE "chat"

\* a slip: the documents are never followed by the scheduler
route_after_rag_to_synthesize(st) == "synthesize"

\* ched_backend.py:153-164
route_after_rag(st) ==
    IF st.orchestrator_output # None /\ st.orchestrator_output[1].intent = "scheduler"
    THEN "scheduler" ELSE "synthesize"

\* models.py:73-83
RAGOutput(synthesized_answer, extracted_deadlines) ==
    [synthesized_answer |-> synthesized_answer, extracted_deadlines |-> extracted_deadlines]

\* agents/rag.py:17-172
rag_agent(st, reply) ==
    IF reply.kind = "raise"
    THEN [st EXCEPT !.rag_output = Some(RAGOutput(<<"I encountered an error", reply.e>>, <<>>)),
                    !.error = Some(reply.e)]
    ELSE IF reply.content.kind = "json"
    THEN [st EXCEPT !.rag_output = Some(reply.content.parsed)]
    ELSE [st EXCEPT !.rag_output = Some(RAGOutput(<<reply.content.text>>, <<>>))]

\* models.py:118-123
ChatOutput(response, follow_up_suggestions) ==
    [response |-> response, follow_up_suggestions |-> follow_up_suggestions]

\* agents/chat.py:13 and 28-34: the last 5 messages of the state, which make
\* the conversation history of the prompt
conv_history(st) ==
    SubSeq(st.messages, IF Len(st.messages) > 5 THEN Len(st.messages) - 4 ELSE 1,
           Len(st.messages))

\* agents/chat.py:87-92
chat_fallback(st, e) ==
    [st EXCEPT !.chat_output = Some(ChatOutput(<<"I apologize", e>>, <<>>)),
               !.error = Some(e)]

\* agents/chat.py:56-92: the call of the model, the one pass over its tool
\* calls with a second call when get_current_date was among them, the parse
chat_agent(st, reply, reply2) ==
    IF reply.kind = "raise" THEN chat_fallback(st, reply.e)
    ELSE LET tool_outputs == SelectSeq(reply.tool_calls,
                                       LAMBDA tool_call : tool_call.name = "get_current_date")
             response == IF tool_outputs # <<>> THEN reply2 ELSE reply
         IN  IF response.kind = "raise" THEN chat_fallback(st, response.e)
             ELSE IF response.content.kind = "json"
             THEN [st EXCEPT !.chat_output = Some(response.content.parsed)]
             ELSE chat_fallback(st, "parse")

\* ched_backend.py:48-73: the part of an academic output
academic_parts(res) ==
    IF res.response # "" THEN << <<res.response>> >>
    ELSE << <<"Academic Strategy Report">>, <<"Current CGPA", "N/A">>,
            <<"Target CGPA", "N/A">>, <<"Status", "Not Mathematically Possible">>,
            <<"Rationale", "">> >>

\* ched_backend.py:28-126
response_synthesizer(st, rows) ==
    LET intent == IF st.orchestrator_output = None THEN "chat"
                  ELSE st.orchestrator_output[1].intent
        first == IF intent = "academic" /\ st.academic_output # None
                 THEN academic_parts(st.academic_output[1]) ELSE <<>>
        events == get_upcoming_events(rows, user_id_val(st.user_id), DefaultLimit)
        second ==
            IF intent = "rag" /\ st.rag_output # None
            THEN << <<"answer", st.rag_output[1].synthesized_answer>> >>
                 \o (IF st.rag_output[1].extracted_deadlines # <<>>
                     THEN << <<"Extracted Deadlines", st.rag_output[1].extracted_deadlines>> >>
                     ELSE <<>>)
            ELSE IF intent = "scheduler" /\ st.scheduler_output # None
            THEN << <<"Scheduling Update", st.scheduler_output[1].scheduling_rationale>> >>
                 \o (IF st.scheduler_output[1].proposed_events # <<>>
                     THEN << <<"Proposed (Not yet synced)",
                               st.scheduler_output[1].proposed_events>> >>
                     ELSE <<>>)
            ELSE IF intent = "calendar"
            THEN IF events # <<>>
                 THEN << <<"Upcoming Events",
                           [i \in 1..Len(events) |-> <<events[i].title, events[i].start_datetime>>]>> >>
                 ELSE << <<"No upcoming events found.">> >>
            ELSE IF st.chat_output # None
            THEN << <<"chat", st.chat_output[1].response>> >>
                 \o (IF st.chat_output[1].follow_up_suggestions # <<>>
                     THEN << <<"Suggestions", st.chat_output[1].follow_up_suggestions>> >>
                     ELSE <<>>)
            ELSE <<>>
        response_parts == first \o second
    IN  IF response_parts # <<>> THEN response_parts
        ELSE << <<"I'm not sure how to help with that.">> >>

\* a slip: the output of synthesize is not picked up
on_chain_end_missed(r, name, output) == r

\* ched_backend.py:267-270
on_chain_end(r, name, output) ==
    IF name = "synthesize" THEN [r EXCEPT !.final_response_content = output] ELSE r

\* app.astream_events(initial_state, config) (ched_backend.py:227, 252) on a
\* graph compiled with the checkpointer (ched_backend.py:211): the input is
\* applied to the state saved under config's thread_id: messages is reduced
\* by add_messages, every other channel is overwritten
graph_input(thread_id, input) ==
    /\ state' = [input EXCEPT !.messages = add_messages(checkpointer[thread_id], input.messages)]
    /\ checkpointer' = [checkpointer EXCEPT ![thread_id] = state'.messages]

NoRun ==
    [pc |-> "idle", node |-> "none", chunks |-> <<>>, final_response_content |-> <<>>,
     visited |-> <<>>]

\* ched_backend.py:229-252: the initial state, and the graph entered at its
\* entry point
stream_query(user_query, thread_id, user_id) ==
    /\ run.pc = "idle"
    /\ run' = [pc |-> "streaming", node |-> "orchestrator", chunks |-> <<>>,
               final_response_content |-> <<>>, visited |-> <<>>, thread_id |-> thread_id]
    /\ graph_input(thread_id, initial_state(user_query, user_id))
    /\ last' = [op |-> "stream_query"]
    /\ UNCHANGED <<eventVars, chatTable, todoVars, enrollVars, agent>>

orchestrator_node(reply) ==
    /\ run.pc = "streaming" /\ run.node = "orchestrator"
    /\ state' = orchestrator_agent(state, reply)
    /\ run' = graph_edge(on_chat_model_stream(run, reply), route_after_orchestrator(state'))
    /\ last' = [op |-> "orchestrator_agent", reply |-> reply.kind,
                content |-> IF reply.kind = "reply" THEN reply.content.kind ELSE "none"]
    /\ UNCHANGED <<eventVars, chatVars, enrollVars, agent>>

rag_node(reply) ==
    /\ run.pc = "streaming" /\ run.node = "rag"
    /\ state' = rag_agent(state, reply)
    /\ run' = graph_edge(on_chat_model_stream(run, reply), route_after_rag(state'))
    /\ last' = [op |-> "rag_agent"]
    /\ UNCHANGED <<eventVars, chatVars, enrollVars, agent>>

\* agents/chat.py:16-26 raises NameError (json is not imported) when the state
\* holds a rag output; the exception ends the graph run and the stream
chat_node(reply, reply2) ==
    /\ run.pc = "streaming" /\ run.node = "chat"
    /\ IF state.rag_output # None
       THEN /\ run' = [run EXCEPT !.pc = "failed"]
            /\ state' = state
       ELSE /\ state' = chat_agent(state, reply, reply2)
            /\ run' = graph_edge(on_chat_model_stream(
                                     on_chat_model_stream(run, reply),
                                     IF reply.kind = "reply"
                                        /\ \E i \in DOMAIN reply.tool_calls :
                                               reply.tool_calls[i].name = "get_current_date"
                                     THEN reply2 ELSE [kind |-> "none"]),
                                  "synthesize")
    /\ last' = [op |-> "chat_agent", history |-> conv_history(state)]
    /\ UNCHANGED <<eventVars, chatVars, enrollVars, agent>>

synthesize_node ==
    /\ run.pc = "streaming" /\ run.node = "synthesize"
    /\ \E final_response \in {response_synthesizer(state, user_schedule)} :
          state' = [state EXCEPT
                       !.final_response = final_response,
                       !.messages = add_messages(@, <<AIMessage(final_response, state.user_id)>>)]
    /\ checkpointer' = [checkpointer EXCEPT ![run.thread_id] = state'.messages]
    /\ run' = graph_edge(on_chain_end(run, "synthesize", state'.final_response), "END")
    /\ last' = [op |-> "response_synthesizer"]
    /\ UNCHANGED <<eventVars, chatTable, todoVars, enrollVars, agent>>

\* ched_backend.py:272-277: the chunk yielded after the loop over the events
stream_query_end ==
    /\ run.pc = "streaming" /\ run.node = "END"
    /\ run' = [run EXCEPT !.pc = "done",
                          !.chunks = Append(@, [type |-> "final",
                                                response |-> run.final_response_content,
                                                status |-> "complete"])]
    /\ last' = [op |-> "stream_query_end"]
    /\ UNCHANGED <<eventVars, chatVars, enrollVars, agent, state>>

(***************************************************************************)
(* One query through the graph, with every reply of the model.  A query is  *)
(* the tuple of its words.                                                  *)
(***************************************************************************)
Queries == {<<"delete", "all", "my", "events">>, <<"hello">>}

DeleteWords == {"delete", "clear", "wipe", "remove"}

HasDeleteInstruction(q) == \E i \in DOMAIN q : q[i] \in DeleteWords

Streams == {<<>>, <<"", "tok">>}

OrchestratorReplies ==
    Replies({}, 0,
            {[kind |-> "json", parsed |-> OrchestratorOutput(intent, 9, rc, <<"model">>)] :
                intent \in AgentType, rc \in BOOLEAN}
            \cup {[kind |-> "text", text |-> "sure"]},
            Streams)

RagReplies ==
    Replies({}, 0,
            {[kind |-> "json", parsed |-> RAGOutput(<<"answer">>, <<"d1">>)],
             [kind |-> "json", parsed |-> RAGOutput(<<>>, <<>>)],
             [kind |-> "text", text |-> "notes"]},
            {<<>>})

GraphSchedulerReplies == Replies({AddA, ListEvents}, 1, ReplyContents, Streams)

GraphAcademicReplies ==
    Replies({EnrollOne}, 1, {[kind |-> "text", text |-> "done"], [kind |-> "text", text |-> ""]},
            {<<>>})

ChatReplies ==
    Replies({NoArgs("get_current_date")}, 1,
            {[kind |-> "json", parsed |-> ChatOutput(<<"hi">>, <<"s1">>)],
             [kind |-> "text", text |-> "hi"]},
            Streams)

InitGraph ==
    /\ InitStore
    /\ agent = Idle
    /\ state = Idle
    /\ run = NoRun

StreamQuery == \E q \in Queries, user_id \in {"2", "default"} : stream_query(q, "default", user_id)
OrchestratorNode == \E reply \in OrchestratorReplies : orchestrator_node(reply)
RagNode == \E reply \in RagReplies : rag_node(reply)
ChatNode == \E reply \in ChatReplies, reply2 \in ChatReplies : chat_node(reply, reply2)
GraphSchedulerStart == \E reply \in GraphSchedulerReplies : scheduler_start(reply)
GraphSchedulerRound == \E reply \in GraphSchedulerReplies : scheduler_round(reply)
GraphAcademicStart == \E reply \in GraphAcademicReplies : academic_start(reply)
GraphAcademicRound == \E reply \in GraphAcademicReplies : academic_round(reply)

NextGraph ==
    \/ StreamQuery
    \/ OrchestratorNode
    \/ RagNode
    \/ ChatNode
    \/ GraphSchedulerStart
    \/ GraphSchedulerRound
    \/ scheduler_return
    \/ academic_history_read_raises
    \/ GraphAcademicStart
    \/ GraphAcademicRound
    \/ academic_return
    \/ synthesize_node
    \/ stream_query_end

SpecGraph == InitGraph /\ [][NextGraph]_vars

\* the event loop runs a started graph on: every node returns or raises
SpecGraphFair == InitGraph /\ [][NextGraph]_vars /\ WF_vars(NextGraph)

\* C7: for a query with an explicit delete/clear/wipe/remove instruction the
\* decision of the orchestrator, whether from the structured output of the
\* model, the keyword fallback or the hard-coded fallback, is the scheduler and
\* never the calendar, and the run does not go from orchestrator to synthesize.
C7_DeleteRoutedToScheduler ==
    (/\ run.pc = "streaming"
     /\ state.orchestrator_output # None
     /\ HasDeleteInstruction(state.user_query))
    => /\ state.orchestrator_output[1].intent = "scheduler"
       /\ last.op = "orchestrator_agent" => run.node # "synthesize"

IsToken(chunk) == chunk.type = "token" /\ chunk.content # ""

\* C10: the chunks of a completed stream_query are token chunks followed by
\* exactly one final chunk, which is the last, has status "complete" and
\* whose response is the final_response the synthesize node produced in the
\* run; before the end every chunk is a token chunk.
C10_StreamShape ==
    /\ run.pc = "streaming" => \A i \in DOMAIN run.chunks : IsToken(run.chunks[i])
    /\ run.pc = "done" =>
          LET n == Len(run.chunks) IN
          /\ n >= 1
          /\ \A i \in 1..(n - 1) : IsToken(run.chunks[i])
          /\ run.chunks[n].type = "final"
          /\ run.chunks[n].status = "complete"
          /\ run.chunks[n].response = state.final_response
          /\ state.final_response = response_synthesizer(state, user_schedule)

\* a run through the scheduler has ended with tokens before the final chunk
C10_Witness ==
    /\ run.pc = "done"
    /\ Len(run.chunks) >= 3
    /\ state.scheduler_output # None
    /\ run.chunks[Len(run.chunks)].response[1][1] = "Scheduling Update"

(***************************************************************************)
(* POST /query (api.py:129-174): the user message is saved, the stream of   *)
(* stream_query is relayed chunk by chunk, and the assistant message is     *)
(* saved when the final chunk arrives, before it is relayed.                *)
(***************************************************************************)
\* api.py:136 uid = int(request.user_id) if request.user_id.isdigit() else 1
uid_of(user_id) == user_id_val(user_id)

\* the decimal string of a uid: the graph state keeps the uid it was given
uid_str(uid) == IF uid = 2 THEN "2" ELSE "1"

\* a slip: the text of the final chunk is dropped
final_response_dropped(chunk) == <<>>

\* api.py:159-160 final_response = chunk.get("response", "")
final_response_of(chunk) == chunk.response

\* api.py:129-157: up to the first step of the generator
api_process_query(request) ==
    /\ run.pc = "idle"
    /\ LET uid == uid_of(request.user_id)
           r == save_message(chat_history, chat_seq, uid, request.thread_id, "user",
                             request.query, "")
       IN  /\ r.seq <= MaxMessages
           /\ chat_history' = r.rows
           /\ chat_seq' = r.seq
           /\ run' = [pc |-> "streaming", node |-> "orchestrator", chunks |-> <<>>,
                      final_response_content |-> <<>>, visited |-> <<>>,
                      thread_id |-> request.thread_id,
                      request |-> [uid |-> uid, thread_id |-> request.thread_id,
                                   query |-> request.query]]
           /\ graph_input(request.thread_id, initial_state(request.query, uid_str(uid)))
    /\ last' = [op |-> "api_process_query"]
    /\ UNCHANGED <<eventVars, todoVars, enrollVars, agent>>

\* ched_backend.py:272-277 and api.py:157-169: the final chunk is yielded by
\* stream_query, the assistant message is saved, the chunk is relayed
event_generator_final ==
    /\ run.pc = "streaming" /\ run.node = "END"
    /\ "request" \in DOMAIN run
    /\ LET chunk == [type |-> "final", response |-> run.final_response_content,
                     status |-> "complete"]
           r == save_message(chat_history, chat_seq, run.request.uid, run.request.thread_id,
                             "assistant", final_response_of(chunk), "chat")
       IN  /\ r.seq <= MaxMessages
           /\ chat_history' = r.rows
           /\ chat_seq' = r.seq
           /\ run' = [run EXCEPT !.pc = "done", !.chunks = Append(@, chunk)]
    /\ last' = [op |-> "event_generator_final"]
    /\ UNCHANGED <<eventVars, todoVars, checkpointer, enrollVars, agent, state>>

QueryRequests ==
    [query : {<<"add", "exam">>}, thread_id : {"t1", "agent"}, user_id : {"2", "default"}]

ApiProcessQuery == \E request \in QueryRequests : api_process_query(request)

NextQuery ==
    \/ ApiProcessQuery
    \/ OrchestratorNode
    \/ RagNode
    \/ ChatNode
    \/ GraphSchedulerStart
    \/ GraphSchedulerRound
    \/ scheduler_return
    \/ academic_history_read_raises
    \/ GraphAcademicStart
    \/ GraphAcademicRound
    \/ academic_return
    \/ synthesize_node
    \/ event_generator_final

SpecQuery == InitGraph /\ [][NextQuery]_vars

MessagesOf(role) == {m \in chat_history : m.role = role}

\* C11: for a query of user U in thread T whose stream is consumed to the
\* end, the chat log gains exactly one user message, the query, written
\* before the pipeline starts, and exactly one assistant message of (U, T)
\* whose text is the response of the final chunk, written after the user
\* message and not later than the delivery of the final chunk.
C11_ChatLogOfQuery ==
    /\ run.pc = "streaming" =>
          /\ MessagesOf("assistant") = {}
          /\ \E m \in chat_history :
                /\ chat_history = {m}
                /\ m.role = "user" /\ m.message = run.request.query
                /\ m.user_id = run.request.uid /\ m.thread_id = run.request.thread_id
    /\ run.pc = "done" =>
          \E m \in MessagesOf("user"), a \in MessagesOf("assistant") :
             /\ chat_history = {m, a}
             /\ m.message = run.request.query
             /\ m.user_id = run.request.uid /\ m.thread_id = run.request.thread_id
             /\ a.user_id = run.request.uid /\ a.thread_id = run.request.thread_id
             /\ a.message = run.chunks[Len(run.chunks)].response
             /\ m.id < a.id

\* a query of the default user has been answered through the scheduler
C11_Witness ==
    /\ run.pc = "done"
    /\ run.request.uid = 1 /\ run.request.thread_id = "t1"
    /\ state.scheduler_output # None
    /\ Cardinality(chat_history) = 2
    /\ \E a \in MessagesOf("assistant") : a.message[1][1] = "Scheduling Update"

(***************************************************************************)
(* The path of a graph run (ched_backend.py:173-211).                       *)
(***************************************************************************)
\* the agent nodes that have returned, in order
AgentsRun == SelectSeq(run.visited, LAMBDA n : n \notin {"orchestrator", "synthesize"})

AgentsOf(intent, requires_context) ==
    IF intent = "scheduler" THEN (IF requires_context THEN <<"rag", "scheduler">> ELSE <<"scheduler">>)
    ELSE IF intent = "rag" THEN <<"rag">>
    ELSE IF intent = "academic" THEN <<"academic">>
    ELSE IF intent = "calendar" THEN <<>>
    ELSE <<"chat">>

RoutedState(intent, requires_context) ==
    [initial_state(<<"q">>, "1") EXCEPT
        !.orchestrator_output = Some(OrchestratorOutput(intent, 9, requires_context, <<"r">>))]

\* C12: the agent nodes executed between the Router and the Synthesizer are
\* a function of the Router decision: scheduler with requires_context runs
\* rag then scheduler, scheduler without it runs scheduler, rag runs rag,
\* academic runs academic, chat or an intent outside the closed set runs
\* chat, calendar runs no agent node.
C12_PathOfDecision ==
    /\ run.pc \in {"streaming", "done"} /\ run.node \in {"synthesize", "END"} =>
          /\ state.orchestrator_output # None
          /\ AgentsRun = AgentsOf(state.orchestrator_output[1].intent,
                                  state.orchestrator_output[1].requires_context)
    /\ \A requires_context \in BOOLEAN :
          /\ route_after_orchestrator(RoutedState("other", requires_context)) = "chat"
          /\ route_after_rag(RoutedState("other", requires_context)) = "synthesize"

\* a scheduling request that needs the documents has run rag, then the scheduler
C12_Witness ==
    /\ run.node = "END"
    /\ state.orchestrator_output[1].intent = "scheduler"
    /\ run.visited = <<"orchestrator", "rag", "scheduler", "synthesize">>

NoRepeat(seq) == \A i, j \in DOMAIN seq : seq[i] = seq[j] => i = j

\* C13: every graph run, whatever the Router decides and however an agent
\* ends, failures inside an agent included, is one sequential pass: the
\* Router runs first and once, no agent node runs twice, the Synthesizer runs
\* once and last, and the run eventually reaches END.
C13_SinglePassToEnd ==
    /\ [](run.pc # "idle" =>
            /\ NoRepeat(run.visited)
            /\ run.visited # <<>> => run.visited[1] = "orchestrator"
            /\ \A i \in DOMAIN run.visited :
                  run.visited[i] = "synthesize" => i = Len(run.visited)
            /\ run.node = "END" <=> (run.visited # <<>>
                                     /\ run.visited[Len(run.visited)] = "synthesize"))
    /\ (run.pc = "streaming") ~> (run.node = "END")

\* C14: in every run in which the scheduler node executes, the verifier
\* executes after it and before the Synthesizer, so the state that reaches the
\* Synthesizer has its verifier_output populated.
C14_VerifiedBeforeSynthesize ==
    (/\ run.pc \in {"streaming", "done"}
     /\ run.node \in {"synthesize", "END"}
     /\ \E i \in DOMAIN run.visited : run.visited[i] = "scheduler")
    => state.verifier_output # None

\* C15: when the call of the Router's model succeeds and its output does not
\* parse, the Router returns a decision of the keyword heuristic (delete and
\* schedule words give scheduler), with confidence 0.4, the parse failure in
\* the reasoning, and no error marker.
C15_ParseFailureHeuristic ==
    (last.op = "orchestrator_agent" /\ last.reply = "reply" /\ last.content = "text") =>
        /\ state.orchestrator_output # None
        /\ state.orchestrator_output[1].confidence = 4
        /\ state.orchestrator_output[1].reasoning[1] = "Naive fallback due to parsing error"
        /\ HasDeleteInstruction(state.user_query) =>
              state.orchestrator_output[1].intent = "scheduler"
        /\ state.error = None

\* the slot of the state that an agent node writes
OutputSlot(node) ==
    IF node = "scheduler" THEN state.scheduler_output
    ELSE IF node = "academic" THEN state.academic_output
    ELSE IF node = "chat" THEN state.chat_output
    ELSE state.rag_output

\* the rationale or response of a written slot
SlotText(node) ==
    IF node = "scheduler" THEN state.scheduler_output[1].scheduling_rationale
    ELSE IF node = "academic" THEN state.academic_output[1].response
    ELSE IF node = "chat" THEN state.chat_output[1].response
    ELSE state.rag_output[1].synthesized_answer

ErrorHeaders ==
    {"Error in scheduling", "Academic execution error", "I apologize", "I encountered an error"}

\* an agent, not the Router, has set the error marker
AgentRaised == state.error # None /\ state.orchestrator_output[1].confidence # 1

\* C16: whatever exception occurs in a call of the model, a tool call or the
\* parsing of the output, each of the agents scheduler, academic, chat and rag
\* returns with its own output slot populated, by a fallback whose rationale
\* or response carries the error text when it has caught an exception.
C16_FallbackSlotPopulated ==
    (run.pc \in {"streaming", "done"} /\ run.node \in {"synthesize", "END"}) =>
        /\ \A i \in DOMAIN AgentsRun : OutputSlot(AgentsRun[i]) # None
        /\ AgentRaised =>
              \E i \in DOMAIN AgentsRun :
                 /\ OutputSlot(AgentsRun[i]) # None
                 /\ SlotText(AgentsRun[i]) # <<>>
                 /\ SlotText(AgentsRun[i])[1] \in ErrorHeaders

(***************************************************************************)
(* The tool loops with tool calls that fail and tool calls that repeat.     *)
(***************************************************************************)
ToolSchedulerReplies ==
    Replies({AddA, AddUrgent, ListEvents, GetDate, SendEmail}, MaxToolCalls,
            {[kind |-> "text", text |-> "done"]}, {<<>>})

ToolAcademicReplies ==
    Replies({EnrollOne, DocsNoQuery}, MaxToolCalls, {[kind |-> "text", text |-> "done"]}, {<<>>})

ToolSchedulerStart == \E reply \in ToolSchedulerReplies : scheduler_start(reply)
ToolSchedulerRound == \E reply \in ToolSchedulerReplies : scheduler_round(reply)
ToolAcademicStart == \E reply \in ToolAcademicReplies : academic_start(reply)
ToolAcademicRound == \E reply \in ToolAcademicReplies : academic_round(reply)

NextTools ==
    \/ ToolSchedulerStart
    \/ ToolSchedulerRound
    \/ scheduler_return
    \/ ToolAcademicStart
    \/ ToolAcademicRound
    \/ academic_return

SpecTools == InitAgents /\ [][NextTools]_vars

RoundOfToolLoop == last.op \in {"scheduler_round", "academic_round"}

\* C17: in every agent tool loop the failure of one tool execution is caught
\* for that tool call only: it becomes an error entry of the context given to
\* the next call of the model, the other tool calls of the round are still
\* processed, and the loop goes on instead of ending the agent run.
C17_ToolFailureContained ==
    (RoundOfToolLoop /\ last.failed > 0) =>
        /\ Cardinality({i \in DOMAIN last.tool_context : last.tool_context[i] = "Tool Error"})
              = last.failed
        /\ last.processed = last.calls
        /\ agent.pc = "returned" => last.llm = "raise"

(***************************************************************************)
(* Repeated tool calls in one run of the scheduler (scheduler.py:109-144).  *)
(***************************************************************************)
MutatingTools ==
    {"add_event", "update_calendar_event", "delete_calendar_event", "delete_events_on_date",
     "clear_full_calendar", "enroll_student_in_course", "unenroll_student_from_course"}

ReadOnlyTools == {"search_calendar", "list_calendar_events", "retrieve_from_docs", "get_current_date"}

Signature(tool_call) == <<tool_call.name, tool_call.args>>

\* the signatures executed with success before call i of the round in last
ExecutedBefore(i) ==
    last.executed_before
    \cup {Signature(last.tool_calls[j]) :
             j \in {k \in 1..(i - 1) : last.tool_context[k] = "Tool Result"}}

C19_ReadOnlyCallRepeated ==
    last.op = "scheduler_round" =>
        \A i \in DOMAIN last.tool_calls :
           last.tool_calls[i].name \in ReadOnlyTools
           => /\ i \in DOMAIN last.tool_context
              /\ last.tool_context[i] # "already executed"

\* C27: a round of the scheduler's tool loop in which no tool call was newly
\* executed (every call skipped as a duplicate, failed, or of an unknown tool)
\* ends the loop at once, the first round included: the model is not invoked
\* after such a round.
C27_NoNewActionEndsLoop ==
    (last.op = "scheduler_round" /\ ~last.new_actions_performed)
        => (last.llm = "none" /\ agent.broke)

\* "\n".join(response_parts) is the empty text: the one part is the empty
\* answer of the rag output or the empty response of the chat output
EmptyText(parts) ==
    /\ Len(parts) = 1
    /\ Len(parts[1]) = 2
    /\ parts[1][1] \in {"answer", "chat"}
    /\ parts[1][2] = <<>>

\* C28: for every intent and every combination of populated and empty output
\* slots the synthesizer's final response is a non-empty text (the generic
\* message when no branch yields usable content), and that text is appended to
\* the message history as one assistant message.
C28_FinalResponseNonEmpty ==
    (last.op = "response_synthesizer") =>
        /\ ~EmptyText(state.final_response)
        /\ state.messages # <<>>
        /\ state.messages[Len(state.messages)]
              = AIMessage(state.final_response, state.user_id)

\* C20: every operation of the event CRUD surface is scoped to the user who
\* asks: an event created through create_event with user id U is stored as an
\* event of U, and two users never see or alter each other's events.
C20_CreateStoresForRequester ==
    (last.via = "create_event" /\ last.ret) =>
        \E e \in user_schedule : /\ e.id = last.id
                                 /\ e.title = last.title
                                 /\ e.user_id = last.req_user_id

(***************************************************************************)
(* The todo list (database.py:450-516, api.py:52-103).  A request is made   *)
(* on behalf of a user; update and delete name the todo by its id only.     *)
(***************************************************************************)
MaxTodos == 2

\* database.py:465-475
add_todo(rows, seq, user_id, text, due_date, priority, tag) ==
    [rows |-> rows \cup {[id |-> seq + 1, user_id |-> user_id, text |-> text, completed |-> 0,
                          due_date |-> due_date, priority |-> priority, tag |-> tag]},
     seq |-> seq + 1]

\* database.py:477-500: completed and text are Optional; WHERE id = ?
update_todo(rows, todo_id, completed, text) ==
    IF completed = None /\ text = None THEN [rows |-> rows, ret |-> FALSE]
    ELSE LET hit == {r \in rows : r.id = todo_id} IN
         [rows |-> (rows \ hit)
                   \cup {[r EXCEPT !.completed = IF completed = None THEN @
                                                 ELSE IF completed[1] THEN 1 ELSE 0,
                                   !.text = IF text = None THEN @ ELSE text[1]] : r \in hit},
          ret |-> hit # {}]

\* database.py:502-508 WHERE id = ?
delete_todo(rows, todo_id) ==
    [rows |-> {r \in rows : r.id # todo_id}, ret |-> \E r \in rows : r.id = todo_id]

\* database.py:510-516
clear_all_todos(rows, user_id) ==
    [rows |-> {r \in rows : r.user_id # user_id}, ret |-> \E r \in rows : r.user_id = user_id]

TodoCall(op, on_behalf_of, todo_id, ret) ==
    [op |-> op, on_behalf_of |-> on_behalf_of, todo_id |-> todo_id, ret |-> ret]

\* api.py:69-80 POST /todos
add_todo_call(request) ==
    LET uid == uid_of(request.user_id)
        r == add_todo(todo_items, todo_seq, uid, request.text, request.due_date,
                      request.priority, request.tag)
    IN  /\ r.seq <= MaxTodos
        /\ todo_items' = r.rows
        /\ todo_seq' = r.seq
        /\ last' = TodoCall("add_todo", uid, r.seq, TRUE)
        /\ UNCHANGED <<eventVars, chatTable, checkpointer, enrollVars, procVars>>

\* api.py:82-88 PATCH /todos/{todo_id}: the request names no user
update_todo_call(on_behalf_of, todo_id, request) ==
    LET r == update_todo(todo_items, todo_id, request.completed, request.text) IN
    /\ todo_items' = r.rows
    /\ last' = TodoCall("update_todo", on_behalf_of, todo_id, r.ret)
    /\ UNCHANGED <<eventVars, chatTable, checkpointer, todo_seq, enrollVars, procVars>>

\* api.py:90-96 DELETE /todos/{todo_id}: the request names no user
delete_todo_call(on_behalf_of, todo_id) ==
    LET r == delete_todo(todo_items, todo_id) IN
    /\ todo_items' = r.rows
    /\ last' = TodoCall("delete_todo", on_behalf_of, todo_id, r.ret)
    /\ UNCHANGED <<eventVars, chatTable, checkpointer, todo_seq, enrollVars, procVars>>

\* api.py:98-103 DELETE /todos
clear_todos(user_id) ==
    LET uid == uid_of(user_id)
        r == clear_all_todos(todo_items, uid)
    IN  /\ todo_items' = r.rows
        /\ last' = TodoCall("clear_all_todos", uid, 0, r.ret)
        /\ UNCHANGED <<eventVars, chatTable, checkpointer, todo_seq, enrollVars, procVars>>

TodoRequests ==
    [user_id : {"1", "2", "default"}, text : {"read", "write"}, due_date : {None},
     priority : {"Medium"}, tag : {"General"}]

TodoUpdates == [completed : {None, Some(TRUE), Some(FALSE)}, text : {None, Some("done")}]

TodoIds == 1..(MaxTodos + 1)

AddTodo == \E request \in TodoRequests : add_todo_call(request)

UpdateTodo ==
    \E u \in Users, todo_id \in TodoIds, request \in TodoUpdates :
        update_todo_call(u, todo_id, request)

DeleteTodo == \E u \in Users, todo_id \in TodoIds : delete_todo_call(u, todo_id)

ClearTodos == \E user_id \in {"1", "2", "default"} : clear_todos(user_id)

NextTodo ==
    \/ AddTodo
    \/ UpdateTodo
    \/ DeleteTodo
    \/ ClearTodos

SpecTodo == Init /\ [][NextTodo]_vars

TodosOf(rows, user_id) == {r \in rows : r.user_id = user_id}

\* C21: every operation of the todo surface is scoped to a user: an update
\* or delete made on behalf of user U changes or removes a todo only if it
\* belongs to U, and no todo operation issued for U changes or removes a todo
\* of another user.
C21_TodoScoped ==
    [][\A u \in Users :
          (last'.op \in {"add_todo", "update_todo", "delete_todo", "clear_all_todos"}
           /\ last'.on_behalf_of # u)
          => TodosOf(todo_items', u) = TodosOf(todo_items, u)]_vars

\* C22: every tool call an agent executes during a request of user U works on
\* U's data: the caller's id is injected when the arguments carry none, and
\* every mutation of events or enrollments, those of the academic agent's
\* enroll tool included, writes rows of U and of no other user.
C22_ToolsActOnCaller ==
    agent.pc \in {"loop", "returned"} =>
        /\ \A r \in user_schedule : r.user_id = user_id_val(state.user_id)
        /\ \A r \in user_courses : r.user_id = user_id_val(state.user_id)

(***************************************************************************)
(* Requests that follow one another on the threads of the checkpointer.    *)
(***************************************************************************)
MaxRequests == 2

SharedOrchestratorReplies ==
    {reply \in OrchestratorReplies :
        /\ reply.kind = "reply"
        /\ reply.content.kind = "json"
        /\ reply.content.parsed.intent \in {"chat", "calendar"}}

\* the generator of a request is exhausted: the locals of the request are gone
request_end ==
    /\ run.pc = "done"
    /\ Len(checkpointer[run.thread_id]) < 2 * MaxRequests
    /\ run' = NoRun
    /\ state' = Idle
    /\ agent' = Idle
    /\ last' = [op |-> "request_end"]
    /\ UNCHANGED <<eventVars, chatVars, enrollVars>>

SharedStreamQuery ==
    \E thread_id \in {"t1", "default"}, user_id \in {"1", "2"} :
        stream_query(<<"hello">>, thread_id, user_id)

SharedOrchestratorNode == \E reply \in SharedOrchestratorReplies : orchestrator_node(reply)

NextShared ==
    \/ SharedStreamQuery
    \/ SharedOrchestratorNode
    \/ ChatNode
    \/ synthesize_node
    \/ stream_query_end
    \/ request_end

SpecShared == InitGraph /\ [][NextShared]_vars

\* C23: requests of different users share no in-memory state: for two
\* requests of different users, even with the same thread id, the message
\* history the agents of the second request read, the last 5 messages given
\* to the chat agent included, holds no message of the first user's request.
C23_NoSharedMessages ==
    /\ run.pc = "streaming" =>
          \A i \in DOMAIN state.messages : state.messages[i].of_user = state.user_id
    /\ last.op = "chat_agent" =>
          \A i \in DOMAIN last.history : last.history[i].of_user = state.user_id

(***************************************************************************)
(* Two calls of add_schedule_event that run at the same time, each on its   *)
(* own connection (database.py:277).  The SELECT of the check reads the     *)
(* committed rows; the INSERT and its commit are one write transaction,     *)
(* which sqlite serializes with the writes of other connections.  The table *)
(* has no UNIQUE constraint (database.py:33-45).                            *)
(***************************************************************************)
Callers == {1, 2}

CallerIdle == [pc |-> "idle"]

\* database.py:277-284: the call is entered and the SELECT of the check is run
add_schedule_event_select(c, event, user_id) ==
    /\ agent[c].pc = "idle"
    /\ agent' = [agent EXCEPT ![c] =
                    [pc |-> "checked", event |-> event, user_id |-> user_id,
                     found |-> \E r \in user_schedule : /\ r.user_id = user_id
                                                        /\ r.title = event.title
                                                        /\ r.start_datetime = event.start_datetime]]
    /\ last' = [op |-> "add_schedule_event.select", caller |-> c]
    /\ UNCHANGED <<eventVars, chatVars, enrollVars, state, run>>

\* database.py:286-288: a row was fetched
add_schedule_event_skip(c) ==
    /\ agent[c].pc = "checked" /\ agent[c].found
    /\ agent' = [agent EXCEPT ![c] = [@ EXCEPT !.pc = "returned"] @@ [ret |-> FALSE]]
    /\ last' = [op |-> "add_schedule_event.return", caller |-> c]
    /\ UNCHANGED <<eventVars, chatVars, enrollVars, state, run>>

\* database.py:290-297: INSERT, commit, return True
add_schedule_event_insert(c) ==
    /\ agent[c].pc = "checked" /\ ~agent[c].found
    /\ schedule_seq < MaxEvents
    /\ user_schedule' = user_schedule \cup
          {[id |-> schedule_seq + 1, user_id |-> agent[c].user_id,
            title |-> agent[c].event.title,
            start_datetime |-> agent[c].event.start_datetime,
            end_datetime |-> agent[c].event.end_datetime,
            priority |-> agent[c].event.priority, category |-> agent[c].event.category,
            description |-> agent[c].event.description, source |-> agent[c].event.source]}
    /\ schedule_seq' = schedule_seq + 1
    /\ agent' = [agent EXCEPT ![c] = [@ EXCEPT !.pc = "returned"] @@ [ret |-> TRUE]]
    /\ last' = [op |-> "add_schedule_event.insert", caller |-> c]
    /\ UNCHANGED <<chatVars, enrollVars, state, run>>

InitConcurrent ==
    /\ InitStore
    /\ agent = [c \in Callers |-> CallerIdle]
    /\ state = Idle
    /\ run = Idle

ConcurrentEvents ==
    {ScheduleEvent(title, start, EndTs, High, General, "", "manual") :
        title \in Titles, start \in Starts}

AddSelect ==
    \E c \in Callers, event \in ConcurrentEvents, user_id \in Users :
        add_schedule_event_select(c, event, user_id)

AddSkip == \E c \in Callers : add_schedule_event_skip(c)

AddInsert == \E c \in Callers : add_schedule_event_insert(c)

NextConcurrent ==
    \/ AddSelect
    \/ AddSkip
    \/ AddInsert

SpecConcurrent == InitConcurrent /\ [][NextConcurrent]_vars

SameKey(a, b) ==
    /\ a.user_id = b.user_id
    /\ a.event.title = b.event.title
    /\ a.event.start_datetime = b.event.start_datetime

\* C24: under any interleaving of two concurrent add calls of one user with
\* the same (title, start), made when no such event is stored, exactly one
\* call inserts a row and the other returns failure; the store then holds
\* exactly one event of that (user, title, start).
C24_ConcurrentAddOnce ==
    (/\ \A c \in Callers : agent[c].pc = "returned"
     /\ SameKey(agent[1], agent[2]))
    => /\ agent[1].ret # agent[2].ret
       /\ Cardinality({r \in user_schedule :
                         HoldsEvent({r}, agent[1].user_id, agent[1].event.title,
                                    agent[1].event.start_datetime)}) = 1

====
